---- MODULE Spec2Model ----
(***************************************************************************)
(* Brawl Stars ranked-battle statistics: the two stores that record        *)
(* battles (brawl_stats.collector / src.fetch_battlelog) and the           *)
(* aggregations computed from them (single character, matchup, synergy,    *)
(* trio, 3v3 composition), the loader that reads the ranked store into a  *)
(* shared dataset (src.stats_loader) and the combined export run that      *)
(* writes the output tree (src.export_all_stats).  Further sections: the   *)
(* directory exporters run on their own, the retry loop of one API call,   *)
(* the battle loop of fetch_battle_logs and the player loop of its main,   *)
(* the periodic task of brawl_stats.tasks with its clock, and the          *)
(* statistics of the monitored players.  Each section has a specification  *)
(* of its own over the same variables.                                     *)
(*                                                                         *)
(* Numbers.  Tallies are counts, kept as integers.  The weighted tallies   *)
(* of fetch_stats (SUM(1.0 / cnt)) are kept in units of 1/Unit.  A Beta    *)
(* parameter alpha_prior + wins is kept as its numerator over the number   *)
(* of groups n of the partition: mean * strength = total_wins / n.         *)
(***************************************************************************)
EXTENDS Integers, Sequences, FiniteSets, TLC

\* ---------------------------------------------------------------- bounds
\* Battles recorded in one run, over both stores.
MaxBattles == 2

\* rows in a result set handed to an aggregation function
MaxRows == 2

\* calls of compute_win_rates in one process
MaxRuns == 2

\* ------------------------------------------------------- program constants
\* settings._DEFAULT_MIN_RANK_ID, the "rl.rank_id >= 4" of the queries.
MIN_RANK_ID == 4

VARIABLES
    rank_logs,       \* src.fetch_battlelog: table rank_logs, id = index
    battle_logs,     \* src.fetch_battlelog: table battle_logs, id = index
    win_lose_logs,   \* src.fetch_battlelog: table win_lose_logs (a set of rows)
    matches,         \* the ranked battles handed to fetch_battle_logs so far
    db_battle_logs,  \* brawl_stats.collector: table battle_logs, insertion order
    players,         \* brawl_stats.collector: table players, tag -> last_fetched
    input,           \* the arguments of the aggregation function under study
    output,          \* what its calls returned so far, oldest first
    rng,             \* export_win_rates: the state of the module's random
                     \* generator, kept as the parameters of every block of
                     \* variates drawn since random.seed(0)
    loader,          \* stats_loader.load_recent_ranked_battles: its position
                     \* and its local dicts
    dataset,         \* the StatsDataset it returned
    callers,         \* threads calling dataset.participants_by_rank_log()
    main,            \* export_all_stats.main: position, connection, exit
    tasks,           \* the export tasks submitted to the thread pool
    fs               \* the output tree under --output-root

storeVars == <<rank_logs, battle_logs, win_lose_logs, matches, db_battle_logs, players>>

computeVars == <<input, output, rng>>

loadVars == <<loader, dataset, callers>>

exportVars == <<main, tasks, fs>>

runVars == <<loadVars, exportVars>>

vars == <<storeVars, computeVars, runVars>>

\* ------------------------------------------------------------- helpers
RECURSIVE SetSum(_, _)
\* sum(f[x] for x in S)
SetSum(S, f) ==
    IF S = {} THEN 0
    ELSE LET x == CHOOSE y \in S : TRUE
         IN  f[x] + SetSum(S \ {x}, f)

RECURSIVE SetToSeq(_)
\* cursor.fetchall(): the rows of a result set in some fixed order
SetToSeq(S) ==
    IF S = {} THEN <<>>
    ELSE LET x == CHOOSE y \in S : TRUE
         IN  <<x>> \o SetToSeq(S \ {x})

Range(s) == {s[i] : i \in DOMAIN s}

\* An insertion-ordered dict (Python dict / defaultdict) is a sequence of
\* [key, wins, games] entries with distinct keys.
Keys(d) == {d[i].key : i \in DOMAIN d}

IndexOf(d, k) == CHOOSE i \in DOMAIN d : d[i].key = k

\* d[k]["wins"] += w; d[k]["games"] += g   (defaultdict: a missing key starts at 0)
AddTally(d, k, w, g) ==
    IF k \in Keys(d)
    THEN [d EXCEPT ![IndexOf(d, k)] =
              [key |-> k, wins |-> @.wins + w, games |-> @.games + g]]
    ELSE Append(d, [key |-> k, wins |-> w, games |-> g])

WinsOf(d, k) == IF k \in Keys(d) THEN d[IndexOf(d, k)].wins ELSE 0

GamesOf(d, k) == IF k \in Keys(d) THEN d[IndexOf(d, k)].games ELSE 0

\* =====================================================================
\* brawl_stats: collector.py and analysis.py (sqlite store, any game mode)
\* =====================================================================

\* A string is a sequence of characters; tags use these.
RECURSIVE LStrip(_, _)
\* str.lstrip(chars) for a set of characters
LStrip(s, chars) ==
    IF s # <<>> /\ Head(s) \in chars THEN LStrip(Tail(s), chars) ELSE s

RECURSIVE RStrip(_, _)
RStrip(s, chars) ==
    IF s # <<>> /\ s[Len(s)] \in chars
    THEN RStrip(SubSeq(s, 1, Len(s) - 1), chars)
    ELSE s

UpperChar(c) ==
    CASE c = "a" -> "A" [] c = "b" -> "B" [] c = "c" -> "C" [] c = "d" -> "D"
      [] OTHER -> c

\* collector.normalize_tag: tag.strip().lstrip("#").upper()
normalize_tag(tag) ==
    LET stripped == RStrip(LStrip(tag, {" "}), {" "})
        bare     == LStrip(stripped, {"#"})
    IN  [i \in DOMAIN bare |-> UpperChar(bare[i])]

RANK_TIERS ==
    <<"Bronze", "Silver", "Gold", "Diamond", "Elite", "Legend", "Master", "Pro">>

RECURSIVE RankLoop(_, _)
RankLoop(index, t) ==
    IF t > Len(RANK_TIERS) THEN <<"Unknown", 0>>
    ELSE LET grades == IF RANK_TIERS[t] # "Pro" THEN 3 ELSE 1
         IN  IF index < grades THEN <<RANK_TIERS[t], index + 1>>
             ELSE RankLoop(index - grades, t + 1)

\* analysis.rank_from_trophies
rank_from_trophies(trophies) == RankLoop(trophies - 1, 1)

\* A player of a team, as the battle log gives it.
Player(tag, id, trophies) == [tag |-> tag, id |-> id, trophies |-> trophies]

NoStar == [tag |-> <<>>, id |-> 0]

\* The battle-log items the API can return (battleTime is the key's first half).
ApiItems ==
    LET a  == Player(<<"#", "A">>, 1, 15)
        b  == Player(<<"#", "B">>, 2, 15)
        c  == Player(<<"#", "C">>, 3, 10)
        d  == Player(<<"#", "D">>, 1, 15)
    IN  { [battleTime |-> 1, mode |-> "heist", map |-> "Kaboom Canyon",
           result |-> "victory", star |-> [tag |-> <<"#", "A">>, id |-> 1],
           teams |-> << <<a>>, <<b>> >>],
          [battleTime |-> 2, mode |-> "heist", map |-> "Kaboom Canyon",
           result |-> "defeat", star |-> [tag |-> <<"#", "B">>, id |-> 2],
           teams |-> << <<a>>, <<b>> >>],
          [battleTime |-> 3, mode |-> "heist", map |-> "Kaboom Canyon",
           result |-> "victory", star |-> NoStar,
           teams |-> << <<a, c>>, <<b, d>> >>],
          [battleTime |-> 4, mode |-> "gemGrab", map |-> "Hard Rock Mine",
           result |-> "draw", star |-> [tag |-> <<"#", "A">>, id |-> 1],
           teams |-> << <<a, c>>, <<b>> >>] }

\* What one call of api.fetch_battle_log returns: one item, or two items
\* newest first.
ApiResponses ==
    {<<x>> : x \in ApiItems} \cup
    {r \in {<<x, y>> : x \in ApiItems, y \in ApiItems} : r[1].battleTime > r[2].battleTime}

\* The tags a battle log is fetched for (as typed: lower case, blanks, no #).
FetchTags == {<<"#", "a">>, <<" ", "B", " ">>, <<"#", "Z">>}

NoTeam == -1

RECURSIVE TeamOf(_, _, _)
\* the loop of _winning_team_index: the first team holding the tag
TeamOf(teams, idx, tag_norm) ==
    IF idx > Len(teams) THEN NoTeam
    ELSE IF tag_norm \in {normalize_tag(teams[idx][p].tag) : p \in DOMAIN teams[idx]}
         THEN idx - 1
         ELSE TeamOf(teams, idx + 1, tag_norm)

\* collector.BattleLogCollector._winning_team_index; None is NoTeam, which is
\* also the -1 that add_battle stores for None.
winning_team_index(item, player_tag) ==
    LET player_team == TeamOf(item.teams, 1, normalize_tag(player_tag))
    IN  IF player_team = NoTeam THEN NoTeam
        ELSE IF item.result = "victory" THEN player_team
        ELSE IF item.result = "defeat" THEN 1 - player_team
        ELSE NoTeam

\* an insert that never meets the primary key
InsertAlways(logs, item, winning_team) ==
    Append(logs, [battle_time |-> item.battleTime,
                  star_player_tag |-> normalize_tag(item.star.tag),
                  mode |-> item.mode, map |-> item.map,
                  star_player_brawler_id |-> item.star.id,
                  winning_team |-> winning_team,
                  data |-> item])

\* collector.BattleLogDB.add_battle: the row inserted, or the table unchanged
\* when (battle_time, star_player_tag) is already there (IntegrityError).
add_battle(logs, item, winning_team) ==
    LET star == normalize_tag(item.star.tag)
    IN  IF \E i \in DOMAIN logs :
               logs[i].battle_time = item.battleTime /\ logs[i].star_player_tag = star
        THEN logs
        ELSE Append(logs, [battle_time |-> item.battleTime,
                           star_player_tag |-> star,
                           mode |-> item.mode, map |-> item.map,
                           star_player_brawler_id |-> item.star.id,
                           winning_team |-> winning_team,
                           data |-> item])

\* INSERT OR REPLACE: the row written anew whether it was there or not
ReplacePlayer(ps, tag) ==
    [t \in DOMAIN ps \cup {normalize_tag(tag)} |->
        IF t = normalize_tag(tag) THEN 0 ELSE ps[t]]

\* collector.BattleLogDB.add_player: INSERT OR IGNORE (tag, 0)
add_player(ps, tag) ==
    LET t == normalize_tag(tag)
    IN  IF t \in DOMAIN ps THEN ps ELSE ps @@ (t :> 0)

RECURSIVE AddPlayers(_, _)
AddPlayers(ps, tags) ==
    IF tags = <<>> THEN ps ELSE AddPlayers(add_player(ps, Head(tags)), Tail(tags))

\* The tags of every player of every team, in the order of the two loops.
TeamTags(item) ==
    LET flat[i \in 0..Len(item.teams)] ==
            IF i = 0 THEN <<>>
            ELSE flat[i - 1] \o [p \in DOMAIN item.teams[i] |-> item.teams[i][p].tag]
    IN  SelectSeq(flat[Len(item.teams)], LAMBDA t : t # <<>>)

RECURSIVE StoreItems(_, _, _)
\* the item loop of fetch_and_store_from_api
StoreItems(st, items, player_tag) ==
    IF items = <<>> THEN st
    ELSE LET item  == Head(items)
             logs2 == add_battle(st.logs, item, winning_team_index(item, player_tag))
             added == logs2 # st.logs
         IN  StoreItems(
                 IF added
                 THEN [logs |-> logs2, players |-> AddPlayers(st.players, TeamTags(item)),
                       stored |-> st.stored + 1]
                 ELSE st,
                 Tail(items), player_tag)

\* collector.BattleLogDB.update_player_fetched: UPDATE ... WHERE tag = normalized
update_player_fetched(ps, tag) ==
    LET t == normalize_tag(tag)
    IN  IF t \in DOMAIN ps THEN [ps EXCEPT ![t] = 1] ELSE ps

\* analysis.fetch_and_store_from_api for one player tag and one API response
fetch_and_store_from_api(player_tag, items) ==
    LET st == StoreItems([logs |-> db_battle_logs, players |-> players, stored |-> 0],
                         items, player_tag)
    IN  /\ Len(st.logs) + Len(matches) <= MaxBattles
        /\ db_battle_logs' = st.logs
        /\ players' = update_player_fetched(st.players, player_tag)
        /\ UNCHANGED <<rank_logs, battle_logs, win_lose_logs, matches, computeVars, runVars>>

\* --- analysis.analyze_usage_and_winrate ------------------------------------

RECURSIVE UsagePlayers(_, _, _, _, _)
\* for player in team: stats[key]["games"] += 1; if win: stats[key]["wins"] += 1
UsagePlayers(stats, row, team, p, win) ==
    IF p > Len(team) THEN stats
    ELSE LET rank == rank_from_trophies(team[p].trophies)[1]
             key  == <<row.mode, row.map, rank, team[p].id>>
         IN  UsagePlayers(AddTally(stats, key, IF win THEN 1 ELSE 0, 1),
                          row, team, p + 1, win)

RECURSIVE UsageTeams(_, _, _)
\* for idx, team in enumerate(teams): win = winning_team == idx
UsageTeams(stats, row, idx) ==
    IF idx >= Len(row.data.teams) THEN stats
    ELSE UsageTeams(
             UsagePlayers(stats, row, row.data.teams[idx + 1], 1, row.winning_team = idx),
             row, idx + 1)

RECURSIVE UsageRows(_, _, _)
UsageRows(stats, rows, i) ==
    IF i > Len(rows) THEN stats
    ELSE UsageRows(UsageTeams(stats, rows[i], 0), rows, i + 1)

\* The first dict analyze_usage_and_winrate returns:
\* (mode, map, rank, brawler_id) -> games, wins
analyze_usage(rows) == UsageRows(<<>>, rows, 1)

\* key_ba credited on the same condition as key_ab
MatchupStepSameSide(matchups, row, b1, b2) ==
    LET ab == AddTally(matchups, <<row.mode, row.map, b1, b2>>,
                       IF row.winning_team = 0 THEN 1 ELSE 0, 1)
    IN  AddTally(ab, <<row.mode, row.map, b2, b1>>,
                 IF row.winning_team = 0 THEN 1 ELSE 0, 1)

\* One (p1, p2) step of the matchup loops: key_ab then key_ba.
MatchupStep(matchups, row, b1, b2) ==
    LET ab == AddTally(matchups, <<row.mode, row.map, b1, b2>>,
                       IF row.winning_team = 0 THEN 1 ELSE 0, 1)
    IN  AddTally(ab, <<row.mode, row.map, b2, b1>>,
                 IF row.winning_team = 1 THEN 1 ELSE 0, 1)

RECURSIVE MatchupPairs(_, _, _, _)
\* for p1 in team_a: for p2 in team_b, as one loop over the pairs (i, j)
MatchupPairs(matchups, row, i, j) ==
    LET team_a == row.data.teams[1]
        team_b == row.data.teams[2]
    IN  IF i > Len(team_a) THEN matchups
        ELSE IF j > Len(team_b) THEN MatchupPairs(matchups, row, i + 1, 1)
        ELSE MatchupPairs(MatchupStep(matchups, row, team_a[i].id, team_b[j].id),
                          row, i, j + 1)

RECURSIVE MatchupRows(_, _, _)
MatchupRows(matchups, rows, i) ==
    IF i > Len(rows) THEN matchups
    ELSE MatchupRows(
             IF Len(rows[i].data.teams) >= 2
             THEN MatchupPairs(matchups, rows[i], 1, 1)
             ELSE matchups,
             rows, i + 1)

\* The second dict analyze_usage_and_winrate returns:
\* (mode, map, brawler_id, opponent_id) -> games, wins
analyze_matchups(rows) == MatchupRows(<<>>, rows, 1)

\* =====================================================================
\* src: fetch_battlelog.py (MySQL store of ranked battles) and the queries
\* of the exporters
\* =====================================================================

\* (brawler_id, p_tag) of one player of a team
RankedPlayer(id, tag) == [id |-> id, tag |-> tag]

Trio123 == <<RankedPlayer(1, "A"), RankedPlayer(2, "B"), RankedPlayer(3, "C")>>

Trio456 == <<RankedPlayer(4, "D"), RankedPlayer(5, "E"), RankedPlayer(6, "F")>>

Duo12 == <<RankedPlayer(1, "A"), RankedPlayer(2, "B")>>

Duo45 == <<RankedPlayer(4, "D"), RankedPlayer(5, "E")>>

Duo56 == <<RankedPlayer(5, "E"), RankedPlayer(6, "F")>>

Solo3 == <<RankedPlayer(3, "C")>>

Quad1234 == Trio123 \o <<RankedPlayer(4, "D")>>

RankedBattle(map_id, rank_id, day, teams, result) ==
    [map_id |-> map_id, rank_id |-> rank_id, day |-> day, teams |-> teams,
     result |-> result]

\* The soloRanked battles of a battle log: team sizes 1 to 4, both outcomes, a
\* draw, a second map, a rank below MIN_RANK_ID, a battle before the window.
RankedBattles ==
    {RankedBattle(1, MIN_RANK_ID, 1, t, r) :
        t \in {<<Trio123, Trio456>>, <<Duo12, Duo45>>, <<Quad1234, Duo56>>,
               <<Duo12, Solo3>>},
        r \in {"victory", "defeat"}}
    \cup {RankedBattle(1, MIN_RANK_ID, 1, <<Trio123, Trio456>>, "draw"),
          RankedBattle(2, MIN_RANK_ID, 1, <<Trio123, Trio456>>, "victory"),
          RankedBattle(1, MIN_RANK_ID - 1, 1, <<Trio123, Trio456>>, "victory"),
          RankedBattle(1, MIN_RANK_ID, 0, <<Trio123, Trio456>>, "victory")}

\* A battle log is fetched for a player of the first team and, once, for a
\* player who is in neither team of the battle.
RankedFetches ==
    {[player_tag |-> "A", battle |-> b] : b \in RankedBattles}
    \cup {[player_tag |-> "Z",
           battle |-> RankedBattle(1, MIN_RANK_ID, 1, <<Trio123, Trio456>>, "victory")]}

\* The first day of the window: since = (now - DATA_RETENTION_DAYS) as a day.
Since == 1

OPPOSITE(result) == IF result = "victory" THEN "defeat" ELSE "victory"

UnknownResult == "unknown"

\* my_side_idx: the last team that holds player_tag, 0 when there is none
MySide(teams, player_tag) ==
    LET sides == {i \in DOMAIN teams : \E p \in DOMAIN teams[i] : teams[i][p].tag = player_tag}
    IN  IF sides = {} THEN 0 ELSE CHOOSE i \in sides : \A j \in sides : j <= i

\* resultInfo of fetch_battle_logs: per team its result and its brawlers.  The
\* team of player_tag takes the battle's result; with two teams and a
\* victory/defeat the other team, still unknown, takes the opposite.
ResultInfo(battle, player_tag) ==
    LET teams == battle.teams
        mine(i) == \E p \in DOMAIN teams[i] : teams[i][p].tag = player_tag
        first == [i \in DOMAIN teams |->
                     [result |-> IF mine(i) THEN battle.result ELSE UnknownResult,
                      brawlers |-> teams[i]]]
        me == MySide(teams, player_tag)
    IN  IF me # 0 /\ Len(teams) = 2 /\ battle.result \in {"victory", "defeat"}
           /\ first[3 - me].result = UnknownResult
        THEN [first EXCEPT ![3 - me].result = OPPOSITE(battle.result)]
        ELSE first

SideBrawlers(info, result) ==
    UNION {Range(info[i].brawlers) : i \in {j \in DOMAIN info : info[j].result = result}}

\* pairs: winners x losers of one battle, with ids and tags present
WinLosePairs(info, battle_log_id) ==
    {[win_brawler_id |-> w.id, win_player_tag |-> w.tag,
      lose_brawler_id |-> l.id, lose_player_tag |-> l.tag,
      battle_log_id |-> battle_log_id] :
        w \in {x \in SideBrawlers(info, "victory") : x.id \in Int /\ x.tag # ""},
        l \in {x \in SideBrawlers(info, "defeat") : x.id \in Int /\ x.tag # ""}}

\* starPlayer.brawler.id: the star player is the first player of the first team
StarOf(battle) == battle.teams[1][1].id

\* fetch_battle_logs, one soloRanked battle of the log with a star player whose
\* rank log is new: the rank log, the battle and its win/lose rows are inserted.
fetch_battle_logs(player_tag, battle) ==
    LET rank_log_id   == Len(rank_logs) + 1
        battle_log_id == Len(battle_logs) + 1
    IN  /\ Len(db_battle_logs) + Len(matches) < MaxBattles
        /\ rank_logs' = Append(rank_logs, [map_id |-> battle.map_id,
                                           rank_id |-> battle.rank_id,
                                           day |-> battle.day,
                                           star_brawler_id |-> StarOf(battle)])
        /\ battle_logs' = Append(battle_logs, [rank_log_id |-> rank_log_id])
        /\ win_lose_logs' = win_lose_logs \cup
               WinLosePairs(ResultInfo(battle, player_tag), battle_log_id)
        /\ matches' = Append(matches, [battle |-> battle, player_tag |-> player_tag])
        /\ UNCHANGED <<db_battle_logs, players, computeVars, runVars>>

\* --- the queries ---------------------------------------------------------

\* CTE recent_battles: battle_log_id of the battles in the rank/time window
recent_battles(since) ==
    {b \in DOMAIN battle_logs :
        /\ rank_logs[battle_logs[b].rank_log_id].rank_id >= MIN_RANK_ID
        /\ rank_logs[battle_logs[b].rank_log_id].day >= since}

MapOf(b) == rank_logs[battle_logs[b].rank_log_id].map_id

RankOf(b) == rank_logs[battle_logs[b].rank_log_id].rank_id

\* win_lose_logs wl JOIN recent_battles rb ON wl.battle_log_id = rb.battle_log_id
RecentRows(since) == {r \in win_lose_logs : r.battle_log_id \in recent_battles(since)}

\* The weighted tallies of fetch_stats are multiples of 1/Unit.
Unit == 3 * 4

\* a row weighing the whole unit whatever the size of the other side
RowWeightWhole(cnt) == Unit

\* 1.0 / pc.lose_cnt, 1.0 / pc.win_cnt
RowWeight(cnt) == Unit \div cnt

\* export_win_rates.fetch_stats: (map_id, brawler_id, wins, losses), where a
\* win row weighs 1.0 / lose_cnt and a loss row 1.0 / win_cnt of its battle.
fetch_stats(since) ==
    LET rows == RecentRows(since)
        win_cnt(b)  == Cardinality({r.win_brawler_id : r \in {x \in rows : x.battle_log_id = b}})
        lose_cnt(b) == Cardinality({r.lose_brawler_id : r \in {x \in rows : x.battle_log_id = b}})
        keys == {<<MapOf(r.battle_log_id), r.win_brawler_id>> : r \in rows}
                \cup {<<MapOf(r.battle_log_id), r.lose_brawler_id>> : r \in rows}
        wins(k) ==
            LET g == {r \in rows : MapOf(r.battle_log_id) = k[1] /\ r.win_brawler_id = k[2]}
            IN  SetSum(g, [r \in g |-> RowWeight(lose_cnt(r.battle_log_id))])
        losses(k) ==
            LET g == {r \in rows : MapOf(r.battle_log_id) = k[1] /\ r.lose_brawler_id = k[2]}
            IN  SetSum(g, [r \in g |-> RowWeight(win_cnt(r.battle_log_id))])
    IN  SetToSeq({<<k[1], k[2], wins(k), losses(k)>> : k \in keys})

\* export_pair_stats.fetch_matchup_stats: (map_id, brawler_a, brawler_b, wins, losses)
fetch_matchup_stats(since) ==
    LET rows == RecentRows(since)
        win_cnt(m, a, b) ==
            Cardinality({r \in rows : MapOf(r.battle_log_id) = m
                                      /\ r.win_brawler_id = a /\ r.lose_brawler_id = b})
        keys == {<<MapOf(r.battle_log_id), r.win_brawler_id, r.lose_brawler_id>> : r \in rows}
                \cup {<<MapOf(r.battle_log_id), r.lose_brawler_id, r.win_brawler_id>> : r \in rows}
    IN  SetToSeq({<<k[1], k[2], k[3], win_cnt(k[1], k[2], k[3]), win_cnt(k[1], k[3], k[2])>> :
                     k \in keys})

\* export_pair_stats.fetch_synergy_stats: win_pairs / lose_pairs are the self
\* join of win_lose_logs on the battle with the brawler ids ascending,
\* counted with COUNT(*) per (map_id, brawler_a, brawler_b).
fetch_synergy_stats(since) ==
    LET all == win_lose_logs
        win_pairs == {p \in all \X all :
                         /\ p[1].battle_log_id = p[2].battle_log_id
                         /\ p[1].win_brawler_id < p[2].win_brawler_id
                         /\ p[1].battle_log_id \in recent_battles(since)}
        lose_pairs == {p \in all \X all :
                         /\ p[1].battle_log_id = p[2].battle_log_id
                         /\ p[1].lose_brawler_id < p[2].lose_brawler_id
                         /\ p[1].battle_log_id \in recent_battles(since)}
        wkey(p) == <<MapOf(p[1].battle_log_id), p[1].win_brawler_id, p[2].win_brawler_id>>
        lkey(p) == <<MapOf(p[1].battle_log_id), p[1].lose_brawler_id, p[2].lose_brawler_id>>
        keys == {wkey(p) : p \in win_pairs} \cup {lkey(p) : p \in lose_pairs}
    IN  SetToSeq({<<k[1], k[2], k[3],
                    Cardinality({p \in win_pairs : wkey(p) = k}),
                    Cardinality({p \in lose_pairs : lkey(p) = k})>> : k \in keys})

\* tuple(sorted((b1, b2, b3)))
Sort3(b1, b2, b3) ==
    LET lo == IF b1 <= b2 /\ b1 <= b3 THEN b1 ELSE IF b2 <= b3 THEN b2 ELSE b3
        hi == IF b1 >= b2 /\ b1 >= b3 THEN b1 ELSE IF b2 >= b3 THEN b2 ELSE b3
    IN  <<lo, b1 + b2 + b3 - lo - hi, hi>>

\* _maps.mode_id of a map
ModeOf(map_id) == map_id

\* CTE win_brawlers / lose_brawlers: DISTINCT (battle_log_id, brawler_id)
win_brawlers(since) ==
    {<<r.battle_log_id, r.win_brawler_id>> : r \in RecentRows(since)}

lose_brawlers(since) ==
    {<<r.battle_log_id, r.lose_brawler_id>> : r \in RecentRows(since)}

\* CTE win_trios / lose_trios: the triple self join with a < b < c, one row
\* <<battle_log_id, <<a, b, c>>>> per ascending triple of a battle's side
Triples(side) ==
    {<<t[1][1], <<t[1][2], t[2][2], t[3][2]>> >> :
        t \in {u \in side \X side \X side :
                 /\ u[1][1] = u[2][1] /\ u[1][2] < u[2][2]
                 /\ u[1][1] = u[3][1] /\ u[2][2] < u[3][2]}}

\* trio_stats.fetch_trio_rows with since alone:
\* (map_id, rank_id, mode_id, brawler_a, brawler_b, brawler_c, wins, losses)
fetch_trio_rows(since) ==
    LET win_trios  == Triples(win_brawlers(since))
        lose_trios == Triples(lose_brawlers(since))
        key(t) == <<MapOf(t[1]), RankOf(t[1]), ModeOf(MapOf(t[1])), t[2]>>
        keys == {key(t) : t \in win_trios \cup lose_trios}
    IN  SetToSeq({<<k[1], k[2], k[3], k[4][1], k[4][2], k[4][3],
                    Cardinality({t \in win_trios : key(t) = k}),
                    Cardinality({t \in lose_trios : key(t) = k})>> : k \in keys})

\* export_3v3_win_rates.fetch_matchup_rows:
\* (map_id, win_a, win_b, win_c, lose_a, lose_b, lose_c, wins)
fetch_matchup_rows(since) ==
    LET win_trios  == Triples(win_brawlers(since))
        lose_trios == Triples(lose_brawlers(since))
        joined == {p \in win_trios \X lose_trios : p[1][1] = p[2][1]}
        key(p) == <<MapOf(p[1][1]), p[1][2], p[2][2]>>
        keys == {key(p) : p \in joined}
    IN  SetToSeq({<<k[1], k[2][1], k[2][2], k[2][3], k[3][1], k[3][2], k[3][3],
                    Cardinality({p \in joined : key(p) = k})>> : k \in keys})

\* --- the tallies of the compute functions ----------------------------------
\* A nested dict stats[map_id][group] is kept flat: an insertion-ordered dict
\* keyed <<map_id, group>>.  Its maps in order of first appearance are the
\* order of stats.items().

RECURSIVE WinRateTally(_, _, _)
\* export_win_rates.compute_win_rates, first loop:
\* stats[map_id][brawler_id]["wins"] += wins; ["games"] += wins + losses
WinRateTally(stats, rows, i) ==
    IF i > Len(rows) THEN stats
    ELSE WinRateTally(
             AddTally(stats, <<rows[i][1], rows[i][2]>>, rows[i][3], rows[i][3] + rows[i][4]),
             rows, i + 1)

RECURSIVE PairTally(_, _, _)
\* export_pair_stats.compute_pair_rates, first loop:
\* stats[map_id][(b1, b2)]["wins"] += wins; ["games"] += wins + losses
PairTally(stats, rows, i) ==
    IF i > Len(rows) THEN stats
    ELSE PairTally(
             AddTally(stats, <<rows[i][1], <<rows[i][2], rows[i][3]>> >>,
                      rows[i][4], rows[i][4] + rows[i][5]),
             rows, i + 1)

NoRank == 0

\* the trio as written in the row, not sorted
RowTrio(b1, b2, b3) == <<b1, b2, b3>>

\* trio = tuple(sorted((int(b1), int(b2), int(b3))))
TrioKey(b1, b2, b3) == Sort3(b1, b2, b3)

RECURSIVE TrioTally(_, _, _, _)
\* trio_stats.compute_trio_scores, first loop; rank_key is None (NoRank)
\* without group_by_rank.  Keys are <<map_id, rank_key, trio>>.
TrioTally(stats, rows, i, group_by_rank) ==
    IF i > Len(rows) THEN stats
    ELSE LET r == rows[i]
             rank_key == IF group_by_rank THEN r[2] ELSE NoRank
         IN  TrioTally(
                 AddTally(stats, <<r[1], rank_key, TrioKey(r[4], r[5], r[6])>>,
                          r[7], r[7] + r[8]),
                 rows, i + 1, group_by_rank)

RECURSIVE ThreeVsThreeTally(_, _, _)
\* export_3v3_win_rates.compute_matchup_scores, first loop:
\* stats[map_id][(win_team, lose_team)] += wins   (a single float: games unused)
ThreeVsThreeTally(stats, rows, i) ==
    IF i > Len(rows) THEN stats
    ELSE LET r == rows[i]
         IN  ThreeVsThreeTally(
                 AddTally(stats, <<r[1], <<Sort3(r[2], r[3], r[4]), Sort3(r[5], r[6], r[7])>> >>,
                          r[8], 0),
                 rows, i + 1)

\* =====================================================================
\* The shrinkage estimate
\* =====================================================================
\* With n groups in a partition, tw wins and tl losses in total,
\*     mean = tw / (tw + tl),  strength = (tw + tl) / n,
\*     alpha_prior = mean * strength = tw / n,  beta_prior = tl / n,
\* so the posterior parameters of a group with w wins and l losses are
\*     alpha_post = (tw + n * w) / n,   beta_post = (tl + n * l) / n.
\* They are carried as the numerators A, B over the common denominator n.

\* a posterior parameter made of the group's own count alone
PostWithoutPrior(total_wins, n, wins_val) == n * wins_val

\* alpha_post = alpha_prior + wins_val, as the numerator over n
alpha_post(total_wins, n, wins_val) == total_wins + n * wins_val

\* beta_post = beta_prior + losses_val, as the numerator over n
beta_post(total_losses, n, losses_val) == total_losses + n * losses_val

\* float('nan'), what scipy returns for a parameter that is not positive
NaN == -1

\* floor of the square root
ISqrt(v) == CHOOSE r \in 0..50 : r * r <= v /\ (r + 1) * (r + 1) > v

\* scipy.stats.beta.ppf(1 - confidence, A / n, B / n) at confidence 0.95, in
\* thousandths: nan unless both parameters are positive, else a value strictly
\* between 0 and 1, here the normal approximation mean - 1.645 * sd.
beta_ppf(A, B, n) ==
    IF A <= 0 \/ B <= 0 THEN NaN
    ELSE LET S  == A + B
             V  == (10000 * A * B * n) \div (S * S * (S + n))
             q  == (1000 * A) \div S - (329 * ISqrt(V)) \div 20
         IN  IF q < 1 THEN 1 ELSE IF q > 999 THEN 999 ELSE q

\* export_pair_stats / trio_stats / export_3v3_win_rates: beta_lcb
beta_lcb(A, B, n) == beta_ppf(A, B, n)

\* Python's < and == on floats: every comparison with nan is False
FloatLess(x, y) == x # NaN /\ y # NaN /\ x < y

FloatEq(x, y) == x # NaN /\ y # NaN /\ x = y

\* Python's < on the sort keys (win_rate_lcb, games): the first elements that
\* are not == decide
KeyLess(k1, k2) ==
    IF FloatEq(k1[1], k2[1]) THEN k1[2] < k2[2] ELSE FloatLess(k1[1], k2[1])

\* where a stable descending sort puts x among the already sorted s: in front
\* of the first element that is less than x
InsertDesc(s, x) ==
    LET before == {i \in DOMAIN s : KeyLess(s[i].key, x.key)}
        p == IF before = {} THEN Len(s) + 1
             ELSE CHOOSE i \in before : \A j \in before : i <= j
    IN  SubSeq(s, 1, p - 1) \o <<x>> \o SubSeq(s, p, Len(s))

RECURSIVE SortDesc(_)
\* list.sort(key=..., reverse=True) on [key, item] entries.  The posterior
\* parameters of one partition are positive together or not at all, so its
\* keys are totally ordered or all nan, and every stable sort agrees with
\* this one on them.
SortDesc(s) ==
    IF s = <<>> THEN <<>>
    ELSE InsertDesc(SortDesc(SubSeq(s, 1, Len(s) - 1)), s[Len(s)])

RECURSIVE Uniq(_)
\* the distinct elements of s in order of first appearance (dict key order)
Uniq(s) ==
    IF s = <<>> THEN <<>>
    ELSE LET r == Uniq(SubSeq(s, 1, Len(s) - 1))
         IN  IF s[Len(s)] \in Range(r) THEN r ELSE Append(r, s[Len(s)])

\* sum(v["wins"] for v in d.values()), sum(v["games"] for v in d.values())
TotalWins(d) == SetSum(DOMAIN d, [i \in DOMAIN d |-> d[i].wins])

TotalGames(d) == SetSum(DOMAIN d, [i \in DOMAIN d |-> d[i].games])

\* the maps of a flat tally in the order of stats.items()
MapsOf(stats) == Uniq([i \in DOMAIN stats |-> stats[i].key[1]])

\* stats[map_id]
OfMap(stats, map_id) == SelectSeq(stats, LAMBDA e : e.key[1] = map_id)

\* d[k] = v on an insertion-ordered dict of [key, value] entries
SetItem(d, k, v) ==
    IF k \in Keys(d) THEN [d EXCEPT ![IndexOf(d, k)] = [key |-> k, value |-> v]]
    ELSE Append(d, [key |-> k, value |-> v])

\* wins_val / games, kept as the fraction
Ratio(w, g) == [num |-> w, den |-> g]

\* --- export_pair_stats.compute_pair_rates ----------------------------------
\* if symmetrical: map_result[b2][b1] = lcb
MirrorWrite(d, b1, b2, lcb, symmetrical) ==
    IF symmetrical THEN SetItem(d, <<b2, b1>>, lcb) ELSE d

RECURSIVE PairWrites(_, _, _, _, _, _, _)
\* the loop over pairs.items(); map_result[b1][b2] is kept flat under <<b1, b2>>
PairWrites(map_result, pairs, i, tw, tl, n, symmetrical) ==
    IF i > Len(pairs) THEN map_result
    ELSE LET b1  == pairs[i].key[2][1]
             b2  == pairs[i].key[2][2]
             lcb == beta_lcb(alpha_post(tw, n, pairs[i].wins),
                             beta_post(tl, n, pairs[i].games - pairs[i].wins), n)
         IN  PairWrites(
                 MirrorWrite(SetItem(map_result, <<b1, b2>>, lcb), b1, b2, lcb, symmetrical),
                 pairs, i + 1, tw, tl, n, symmetrical)

compute_pair_rates(rows, symmetrical) ==
    LET stats == PairTally(<<>>, rows, 1)
        maps  == MapsOf(stats)
        MapResult(map_id) ==
            LET pairs == OfMap(stats, map_id)
                total_wins  == TotalWins(pairs)
                total_games == TotalGames(pairs)
            IN  IF total_games = 0 \/ Len(pairs) = 0 THEN <<>>
                ELSE PairWrites(<<>>, pairs, 1, total_wins,
                                total_games - total_wins, Len(pairs), symmetrical)
    IN  [i \in DOMAIN maps |-> [map_id |-> maps[i], value |-> MapResult(maps[i])]]

\* --- trio_stats.compute_trio_scores ----------------------------------------
\* the loop over combos.items(), the min_games filter and the sort
TrioList(combos, min_games) ==
    LET total_wins  == TotalWins(combos)
        total_games == TotalGames(combos)
        n == Len(combos)
        Record(val) ==
            LET lcb == beta_lcb(alpha_post(total_wins, n, val.wins),
                                beta_post(total_games - total_wins, n,
                                          val.games - val.wins), n)
            IN  [key  |-> <<lcb, val.games>>,
                 item |-> [brawlers |-> val.key[3], wins |-> val.wins,
                           losses |-> val.games - val.wins, games |-> val.games,
                           win_rate |-> Ratio(val.wins, val.games),
                           win_rate_lcb |-> lcb]]
        trio_list == SelectSeq([i \in DOMAIN combos |-> Record(combos[i])],
                               LAMBDA r : r.item.games > 0 /\ r.item.games >= min_games)
        sorted == SortDesc(trio_list)
    IN  IF total_games <= 0 \/ n = 0 THEN <<>>
        ELSE [i \in DOMAIN sorted |-> sorted[i].item]

compute_trio_scores(rows, group_by_rank, min_games) ==
    LET stats == TrioTally(<<>>, rows, 1, group_by_rank)
        maps  == MapsOf(stats)
        RankDict(map_id) ==
            LET of_map == OfMap(stats, map_id)
                ranks  == Uniq([i \in DOMAIN of_map |-> of_map[i].key[2]])
            IN  [j \in DOMAIN ranks |->
                    [rank_key |-> ranks[j],
                     value |-> TrioList(SelectSeq(of_map, LAMBDA e : e.key[2] = ranks[j]),
                                        min_games)]]
    IN  [i \in DOMAIN maps |-> [map_id |-> maps[i], value |-> RankDict(maps[i])]]

\* --- export_3v3_win_rates.compute_matchup_scores ----------------------------
\* the threshold taken as given
MinGamesAsGiven(min_games) == min_games

\* min_games_threshold = max(min_games, 4)
min_games_threshold(min_games) == IF min_games >= 4 THEN min_games ELSE 4

\* a mirror orientation never looked up
ReverseWinsNone(combos, map_id, win_team, lose_team) == 0

\* reverse_wins = combos.get((lose_team, win_team), 0.0)
ReverseWins(combos, map_id, win_team, lose_team) ==
    WinsOf(combos, <<map_id, <<lose_team, win_team>> >>)

\* the list orientation_stats of one map: (win_team, lose_team, wins_val, games)
OrientationStats(combos, min_games) ==
    SelectSeq(
        [i \in DOMAIN combos |->
            [win_team  |-> combos[i].key[2][1],
             lose_team |-> combos[i].key[2][2],
             wins      |-> combos[i].wins,
             games     |-> combos[i].wins +
                           ReverseWins(combos, combos[i].key[1],
                                       combos[i].key[2][1], combos[i].key[2][2])]],
        LAMBDA o : ~(o.games < min_games_threshold(min_games)))

\* the sorted list records of one map: (record, games) as [item, key[2]]
MatchupRecords(combos, min_games) ==
    LET orientation_stats == OrientationStats(combos, min_games)
        total_wins  == TotalWins(orientation_stats)
        total_games == TotalGames(orientation_stats)
        n == Len(orientation_stats)
        Record(o) ==
            LET lcb == beta_lcb(alpha_post(total_wins, n, o.wins),
                                beta_post(total_games - total_wins, n,
                                          o.games - o.wins), n)
            IN  [key  |-> <<lcb, o.games>>,
                 item |-> [win_brawlers |-> o.win_team, lose_brawlers |-> o.lose_team,
                           win_rate |-> Ratio(o.wins, o.games), win_rate_lcb |-> lcb]]
    IN  IF n = 0 \/ total_games <= 0 THEN <<>>
        ELSE SortDesc([i \in DOMAIN orientation_stats |-> Record(orientation_stats[i])])

\* every map's records before the games are stripped
matchup_records(rows, min_games) ==
    LET stats == ThreeVsThreeTally(<<>>, rows, 1)
        maps  == MapsOf(stats)
    IN  [i \in DOMAIN maps |->
            [map_id |-> maps[i],
             value  |-> MatchupRecords(OfMap(stats, maps[i]), min_games)]]

compute_matchup_scores(rows, min_games) ==
    LET records == matchup_records(rows, min_games)
    IN  [i \in DOMAIN records |->
            [map_id |-> records[i].map_id,
             value  |-> [j \in DOMAIN records[i].value |-> records[i].value[j].item]]]

\* --- export_win_rates.compute_win_rates -------------------------------------
\* export_win_rates.beta_lcb: the element at index (1 - confidence) * SAMPLE_SIZE
\* of the sorted block of SAMPLE_SIZE variates random.betavariate(A / n, B / n)
\* drawn from the generator in state `state`.  The value is a function of the
\* parameters and of the generator's state, and is left uninterpreted.
sampled_lcb(A, B, n, state) == [alpha |-> <<A, n>>, beta |-> <<B, n>>, state |-> state]

RECURSIVE WinRateWrites(_, _, _, _, _, _, _)
\* the loop over brawlers.items().  random.betavariate raises ValueError for a
\* parameter that is not positive: before drawing anything for alpha, after
\* the draw of the first gamma variate for beta.
WinRateWrites(map_result, brawlers, i, tw, tl, n, state) ==
    IF i > Len(brawlers) THEN [error |-> FALSE, value |-> map_result, state |-> state]
    ELSE LET A == tw + n * brawlers[i].wins
             B == tl + n * (brawlers[i].games - brawlers[i].wins)
         IN  IF A <= 0 THEN [error |-> TRUE, value |-> <<>>, state |-> state]
             ELSE IF B <= 0
             THEN [error |-> TRUE, value |-> <<>>, state |-> Append(state, <<A, B, n>>)]
             ELSE WinRateWrites(
                      SetItem(map_result, brawlers[i].key[2], sampled_lcb(A, B, n, state)),
                      brawlers, i + 1, tw, tl, n, Append(state, <<A, B, n>>))

\* a partition taken for empty whatever it holds
SkipsNothing(total_games, n) == FALSE

\* if total_games == 0 or len(brawlers) == 0: results[map_id] = {}; continue
SkipsPartition(total_games, n) == total_games = 0 \/ n = 0

RECURSIVE WinRateMaps(_, _, _, _, _)
\* the loop over stats.items()
WinRateMaps(results, stats, maps, i, state) ==
    IF i > Len(maps) THEN [error |-> FALSE, value |-> results, state |-> state]
    ELSE LET brawlers == OfMap(stats, maps[i])
             total_wins  == TotalWins(brawlers)
             total_games == TotalGames(brawlers)
         IN  IF SkipsPartition(total_games, Len(brawlers))
             THEN WinRateMaps(Append(results, [map_id |-> maps[i], value |-> <<>>]),
                              stats, maps, i + 1, state)
             ELSE LET r == WinRateWrites(<<>>, brawlers, 1, total_wins,
                                         total_games - total_wins, Len(brawlers), state)
                  IN  IF r.error THEN r
                      ELSE WinRateMaps(
                               Append(results, [map_id |-> maps[i], value |-> r.value]),
                               stats, maps, i + 1, r.state)

\* the returned dict (or the ValueError) and the generator's state afterwards
compute_win_rates(rows, state) ==
    LET stats == WinRateTally(<<>>, rows, 1)
    IN  WinRateMaps(<<>>, stats, MapsOf(stats), 1, state)

\* =====================================================================
\* src.stats_loader
\* =====================================================================

\* The battles fetched while a loader runs: a decided 3v3, a draw (no win/lose
\* rows), a battle with brawler 1 on both sides on a second map, and a
\* battle below MIN_RANK_ID.
LoaderFetches ==
    {[player_tag |-> "A", battle |-> b] :
        b \in {RankedBattle(1, MIN_RANK_ID, 1, <<Trio123, Trio456>>, "victory"),
               RankedBattle(1, MIN_RANK_ID, 1, <<Trio123, Trio456>>, "draw"),
               RankedBattle(2, MIN_RANK_ID + 1, 1,
                            <<Duo12, <<RankedPlayer(1, "D"), RankedPlayer(5, "E")>> >>,
                            "defeat"),
               RankedBattle(1, MIN_RANK_ID - 1, 1, <<Trio123, Trio456>>, "victory")}}

\* the threads that call dataset.participants_by_rank_log()
Callers == {1, 2}

\* _participants_cache: None, or the dict as a function rank_log_id -> set
NoCache == [none |-> TRUE, index |-> <<>>]

Cached(index) == [none |-> FALSE, index |-> index]

RECURSIVE Descending(_)
\* the members from the largest to the smallest
Descending(S) ==
    IF S = {} THEN <<>>
    ELSE LET m == CHOOSE x \in S : \A y \in S : y <= x
         IN  <<m>> \o Descending(S \ {m})

RECURSIVE Sorted(_)
\* tuple(sorted(members))
Sorted(S) ==
    IF S = {} THEN <<>>
    ELSE LET m == CHOOSE x \in S : \A y \in S : x <= y
         IN  <<m>> \o Sorted(S \ {m})

\* SELECT rl.id, rl.map_id, rl.rank_id, m.mode_id FROM rank_logs rl ...
\* WHERE rl.rank_id >= MIN_RANK_ID AND rl.id >= since, as the dict rank_logs
RankLogEntries(since) ==
    SelectSeq([i \in DOMAIN rank_logs |->
                  [id |-> i, map_id |-> rank_logs[i].map_id,
                   rank_id |-> rank_logs[i].rank_id,
                   mode_id |-> ModeOf(rank_logs[i].map_id),
                   date_key |-> rank_logs[i].day]],
              LAMBDA e : e.rank_id >= MIN_RANK_ID /\ e.date_key >= since)

\* SELECT bl.id, bl.rank_log_id FROM battle_logs bl JOIN rank_logs rl ...,
\* as the dict battle_rank_map
BattleRankMap(since) ==
    SelectSeq([b \in DOMAIN battle_logs |->
                  [battle_log_id |-> b, rank_log_id |-> battle_logs[b].rank_log_id]],
              LAMBDA e : e.battle_log_id \in recent_battles(since))

\* SELECT wl.battle_log_id, wl.win_brawler_id, wl.lose_brawler_id ..., as the
\* dict battle_teams: the rows of a battle outside battle_rank_map are skipped
BattleTeams(since, battle_rank_map) ==
    LET known == {battle_rank_map[i].battle_log_id : i \in DOMAIN battle_rank_map}
        rows  == {r \in RecentRows(since) : r.battle_log_id \in known}
    IN  [b \in {r.battle_log_id : r \in rows} |->
            [win  |-> {r.win_brawler_id : r \in {x \in rows : x.battle_log_id = b}},
             lose |-> {r.lose_brawler_id : r \in {x \in rows : x.battle_log_id = b}}]]

\* SELECT rsl.rank_log_id, rsl.star_brawler_id FROM rank_star_logs rsl JOIN
\* rank_logs rl ..., as the list star_logs: a rank log not loaded is skipped
StarLogs(since, entries) ==
    LET loaded == {entries[i].id : i \in DOMAIN entries}
        all == [i \in DOMAIN rank_logs |-> <<i, rank_logs[i].star_brawler_id>>]
    IN  SelectSeq(all, LAMBDA e : /\ rank_logs[e[1]].rank_id >= MIN_RANK_ID
                                  /\ rank_logs[e[1]].day >= since
                                  /\ e[1] \in loaded)

\* an index that no battle is entered into
NoParticipants(d, battles, i) == d

RECURSIVE Participants(_, _, _)
\* participants[battle.rank_log_id].update(members) for the sides of every
\* battle that are not empty, on a defaultdict(set)
Participants(d, battles, i) ==
    IF i > Len(battles) THEN d
    ELSE LET k == battles[i].rank_log_id
             members == Range(battles[i].win_brawlers) \cup Range(battles[i].lose_brawlers)
         IN  IF members = {} THEN Participants(d, battles, i + 1)
             ELSE Participants(
                      [x \in DOMAIN d \cup {k} |->
                          (IF x \in DOMAIN d THEN d[x] ELSE {})
                          \cup (IF x = k THEN members ELSE {})],
                      battles, i + 1)

\* the loop over battle_rank_map.items() and the StatsDataset it builds
BuildDataset(L, star_logs) ==
    LET Found(id) == {j \in DOMAIN L.rank_logs : L.rank_logs[j].id = id}
        known == SelectSeq(L.battle_rank_map, LAMBDA e : Found(e.rank_log_id) # {})
        Entry(id) == L.rank_logs[CHOOSE j \in Found(id) : TRUE]
        Team(b, side) ==
            IF b \in DOMAIN L.battle_teams THEN Sorted(L.battle_teams[b][side]) ELSE <<>>
        battles ==
            [i \in DOMAIN known |->
                [battle_log_id |-> known[i].battle_log_id,
                 rank_log_id   |-> known[i].rank_log_id,
                 map_id        |-> Entry(known[i].rank_log_id).map_id,
                 rank_id       |-> Entry(known[i].rank_log_id).rank_id,
                 mode_id       |-> Entry(known[i].rank_log_id).mode_id,
                 win_brawlers  |-> Team(known[i].battle_log_id, "win"),
                 lose_brawlers |-> Team(known[i].battle_log_id, "lose")]]
        participants == Participants(<<>>, battles, 1)
    IN  [loaded |-> TRUE, rank_logs |-> L.rank_logs, battles |-> battles,
         star_logs |-> star_logs,
         participants_cache |-> IF DOMAIN participants = {} THEN NoCache
                                ELSE Cached(participants)]

\* =====================================================================
\* The stores as a state machine
\* =====================================================================

\* no export run has started: nothing loaded, no task, an absent output tree
NoRun ==
    /\ loader = [pc |-> "rank_logs", rank_logs |-> <<>>, battle_rank_map |-> <<>>,
                 battle_teams |-> <<>>]
    /\ dataset = [loaded |-> FALSE, rank_logs |-> <<>>, battles |-> <<>>,
                  star_logs |-> <<>>, participants_cache |-> NoCache]
    /\ callers = [t \in Callers |-> [pc |-> "idle", filled |-> FALSE, result |-> <<>>]]
    /\ main = [pc |-> "idle", conn |-> "none", exit |-> -1, error |-> "none", i |-> 1,
               previous |-> FALSE]
    /\ tasks = <<>>
    /\ fs = <<>>

EmptyStores ==
    /\ rank_logs = <<>>
    /\ battle_logs = <<>>
    /\ win_lose_logs = {}
    /\ matches = <<>>
    /\ db_battle_logs = <<>>
    /\ players = <<>>

Init ==
    /\ EmptyStores
    /\ input = <<>>
    /\ output = <<>>
    /\ rng = <<>>
    /\ NoRun

FetchAndStore ==
    \E player_tag \in FetchTags, items \in ApiResponses :
        fetch_and_store_from_api(player_tag, items)

FetchBattleLogs ==
    \E f \in RankedFetches : fetch_battle_logs(f.player_tag, f.battle)

Next == FetchAndStore \/ FetchBattleLogs

Spec == Init /\ [][Next]_vars

\* load_recent_ranked_battles: the connection is in autocommit mode, each of
\* its four queries reads the tables as they are when it runs
LoadRankLogs ==
    /\ loader.pc = "rank_logs"
    /\ loader' = [loader EXCEPT !.pc = "battle_logs", !.rank_logs = RankLogEntries(Since)]
    /\ UNCHANGED <<storeVars, computeVars, dataset, callers, exportVars>>

LoadBattleLogs ==
    /\ loader.pc = "battle_logs"
    /\ loader' = [loader EXCEPT !.pc = "win_lose_logs",
                                !.battle_rank_map = BattleRankMap(Since)]
    /\ UNCHANGED <<storeVars, computeVars, dataset, callers, exportVars>>

LoadWinLoseLogs ==
    /\ loader.pc = "win_lose_logs"
    /\ loader' = [loader EXCEPT !.pc = "star_logs",
                                !.battle_teams = BattleTeams(Since, loader.battle_rank_map)]
    /\ UNCHANGED <<storeVars, computeVars, dataset, callers, exportVars>>

LoadStarLogs ==
    /\ loader.pc = "star_logs"
    /\ loader' = [loader EXCEPT !.pc = "returned"]
    /\ dataset' = BuildDataset(loader, StarLogs(Since, loader.rank_logs))
    /\ UNCHANGED <<storeVars, computeVars, callers, exportVars>>

\* StatsDataset.participants_by_rank_log in thread t:
\* if self._participants_cache is None
CheckCache(t) ==
    /\ dataset.loaded
    /\ callers[t].pc = "idle"
    /\ callers' = [callers EXCEPT
                      ![t].pc = IF dataset.participants_cache.none THEN "build" ELSE "return",
                      ![t].filled = dataset.participants_cache.none]
    /\ UNCHANGED <<storeVars, computeVars, loader, dataset, exportVars>>

\* the loop over self.battles and self._participants_cache = {...}
FillCache(t) ==
    /\ callers[t].pc = "build"
    /\ dataset' = [dataset EXCEPT
                      !.participants_cache = Cached(Participants(<<>>, dataset.battles, 1))]
    /\ callers' = [callers EXCEPT ![t].pc = "return"]
    /\ UNCHANGED <<storeVars, computeVars, loader, exportVars>>

\* return self._participants_cache
ReturnCache(t) ==
    /\ callers[t].pc = "return"
    /\ callers' = [callers EXCEPT ![t].pc = "done",
                                  ![t].result = dataset.participants_cache.index]
    /\ UNCHANGED <<storeVars, computeVars, loader, dataset, exportVars>>

\* a fetcher fills the tables while the loader reads them
NextDataset ==
    \/ \E f \in LoaderFetches : fetch_battle_logs(f.player_tag, f.battle)
    \/ LoadRankLogs
    \/ LoadBattleLogs
    \/ LoadWinLoseLogs
    \/ LoadStarLogs
    \/ \E t \in Callers : CheckCache(t)
    \/ \E t \in Callers : FillCache(t)
    \/ \E t \in Callers : ReturnCache(t)

SpecDataset == Init /\ [][NextDataset]_vars

\* =====================================================================
\* src.export_all_stats: the combined export run
\* =====================================================================

\* the tasks that write one JSON file under the output root
FileTasks == {"win_rates", "star_rates"}

\* the tasks that replace a directory of per-map JSON files
DirTasks == {"pair_stats", "trio_stats", "three_vs_three"}

\* the files written after the tasks: rank match counts, highest rank players
LastFiles == <<"rank_match_counts", "highest_rank_players">>

\* the maps of this run's results
ResultMaps == {1, 2}

\* the files a directory task writes, in the order of its loops
FilesOf(d) ==
    IF d = "root" THEN SetToSeq(FileTasks) \o LastFiles
    ELSE IF d = "pair_stats"
    THEN [i \in 1..2 |-> <<"matchup", Sorted(ResultMaps)[i]>>]
             \o [i \in 1..2 |-> <<"synergy", Sorted(ResultMaps)[i]>>]
    ELSE Sorted(ResultMaps)

\* a file that does not exist
Absent == "absent"

\* the output tree that holds nothing, and the complete output of a run
AbsentTree ==
    [d \in {"root"} \cup DirTasks |->
        [exists |-> FALSE, files |-> [f \in Range(FilesOf(d)) |-> Absent]]]

Tree(run) ==
    [d \in {"root"} \cup DirTasks |->
        [exists |-> TRUE, files |-> [f \in Range(FilesOf(d)) |-> run]]]

\* shutil.rmtree(output_dir)
rmtree(tree, d) == [tree EXCEPT ![d] = AbsentTree[d]]

\* output_dir.mkdir(parents=True, exist_ok=True)
mkdir(tree, d) == [tree EXCEPT ![d].exists = TRUE, !["root"].exists = TRUE]

\* _write_json(path, data): the parent is made, the file is opened for writing
\* (created or truncated) and the document dumped; when the dump raises, what
\* was written so far stays
write_json(tree, d, f, raised) ==
    [mkdir(tree, d) EXCEPT ![d].files[f] = IF raised THEN "partial" ELSE "new"]

\* a connection that stays as it is
LeftOpen(conn) == conn

\* conn.close()
close(conn) == "closed"

\* main up to the connection: output_root.mkdir(parents=True, exist_ok=True)
MkdirRoot ==
    /\ main.pc = "start"
    /\ fs' = mkdir(fs, "root")
    /\ main' = [main EXCEPT !.pc = "connect"]
    /\ UNCHANGED <<storeVars, computeVars, loadVars, tasks>>

\* conn = get_connection(); a mysql.connector.Error ends the run with
\* SystemExit(message)
Connect ==
    /\ main.pc = "connect"
    /\ \/ main' = [main EXCEPT !.pc = "load", !.conn = "open"]
       \/ main' = [main EXCEPT !.pc = "exited", !.exit = 1, !.error = "storage"]
    /\ UNCHANGED <<storeVars, computeVars, loadVars, tasks, fs>>

\* try: dataset = load_recent_ranked_battles(conn, since); ...
\* except mysql.connector.Error: raise SystemExit(message)
\* finally: conn.close()
Load ==
    /\ main.pc = "load"
    /\ \/ /\ main' = [main EXCEPT !.pc = "submit", !.conn = close(main.conn)]
          /\ LET entries == RankLogEntries(Since)
                 map == BattleRankMap(Since)
             IN  dataset' = BuildDataset(
                     [rank_logs |-> entries, battle_rank_map |-> map,
                      battle_teams |-> BattleTeams(Since, map)],
                     StarLogs(Since, entries))
       \/ /\ main' = [main EXCEPT !.pc = "exited", !.exit = 1, !.error = "storage",
                                  !.conn = close(main.conn)]
          /\ UNCHANGED dataset
    /\ UNCHANGED <<storeVars, computeVars, loader, callers, tasks, fs>>

\* executor.submit(func) for every task
Submit ==
    /\ main.pc = "submit"
    /\ main' = [main EXCEPT !.pc = "wait"]
    /\ tasks' = [t \in DOMAIN tasks |-> [pc |-> "start", i |-> 1]]
    /\ UNCHANGED <<storeVars, computeVars, loadVars, fs>>

\* _export_win_rates / _export_star_rates: the rows, the rates, _write_json.
\* The computation may raise, and so may the dump.
ExportFile(t) ==
    /\ t \in FileTasks
    /\ tasks[t].pc = "start"
    /\ \/ /\ tasks' = [tasks EXCEPT ![t].pc = "done"]
          /\ fs' = write_json(fs, "root", t, FALSE)
       \/ /\ tasks' = [tasks EXCEPT ![t].pc = "failed"]
          /\ fs' \in {fs, write_json(fs, "root", t, TRUE)}
    /\ UNCHANGED <<storeVars, computeVars, loadVars, main>>

\* _export_pair_stats / export_trio_json / export_matchup_json: the results are
\* computed (which may raise), then
\* if output_dir.exists(): shutil.rmtree(output_dir)
ExportDirRemove(t) ==
    /\ t \in DirTasks
    /\ tasks[t].pc = "start"
    /\ \/ /\ tasks' = [tasks EXCEPT ![t].pc = "mkdir"]
          /\ fs' = IF fs[t].exists THEN rmtree(fs, t) ELSE fs
       \/ /\ tasks' = [tasks EXCEPT ![t].pc = "failed"]
          /\ UNCHANGED fs
    /\ UNCHANGED <<storeVars, computeVars, loadVars, main>>

\* output_dir.mkdir(parents=True, exist_ok=True)
ExportDirMkdir(t) ==
    /\ t \in DirTasks
    /\ tasks[t].pc = "mkdir"
    /\ tasks' = [tasks EXCEPT ![t].pc = "write"]
    /\ fs' = mkdir(fs, t)
    /\ UNCHANGED <<storeVars, computeVars, loadVars, main>>

\* the loop over the maps: one JSON file per map (and per kind)
ExportDirWrite(t) ==
    /\ t \in DirTasks
    /\ tasks[t].pc = "write"
    /\ LET f == FilesOf(t)[tasks[t].i]
       IN  \/ /\ fs' = write_json(fs, t, f, FALSE)
              /\ tasks' = [tasks EXCEPT
                              ![t].pc = IF tasks[t].i = Len(FilesOf(t)) THEN "done" ELSE "write",
                              ![t].i = tasks[t].i + 1]
           \/ /\ fs' = write_json(fs, t, f, TRUE)
              /\ tasks' = [tasks EXCEPT ![t].pc = "failed"]
    /\ UNCHANGED <<storeVars, computeVars, loadVars, main>>

\* the loop over as_completed: future.result() re-raises a task's exception,
\* the with block then waits for the tasks still running, and the run ends
\* with the exception; without one main goes on to its own two files
Join ==
    /\ main.pc = "wait"
    /\ \A t \in DOMAIN tasks : tasks[t].pc \in {"done", "failed"}
    /\ main' = IF \E t \in DOMAIN tasks : tasks[t].pc = "failed"
               THEN [main EXCEPT !.pc = "exited", !.exit = 1, !.error = "task"]
               ELSE [main EXCEPT !.pc = "last"]
    /\ UNCHANGED <<storeVars, computeVars, loadVars, tasks, fs>>

\* _write_json(rank_match_path, ...); _write_json(highest_rank_player_path, ...)
WriteLast ==
    /\ main.pc = "last"
    /\ \/ /\ fs' = write_json(fs, "root", LastFiles[main.i], FALSE)
          /\ main' = IF main.i = Len(LastFiles)
                     THEN [main EXCEPT !.pc = "exited", !.exit = 0]
                     ELSE [main EXCEPT !.i = main.i + 1]
       \/ /\ fs' = write_json(fs, "root", LastFiles[main.i], TRUE)
          /\ main' = [main EXCEPT !.pc = "exited", !.exit = 1, !.error = "write"]
    /\ UNCHANGED <<storeVars, computeVars, loadVars, tasks>>

\* a run of main over an output root that is new or holds a previous run's
\* complete output
InitExport ==
    /\ EmptyStores
    /\ input = <<>>
    /\ output = <<>>
    /\ rng = <<>>
    /\ loader = [pc |-> "rank_logs", rank_logs |-> <<>>, battle_rank_map |-> <<>>,
                 battle_teams |-> <<>>]
    /\ dataset = [loaded |-> FALSE, rank_logs |-> <<>>, battles |-> <<>>,
                  star_logs |-> <<>>, participants_cache |-> NoCache]
    /\ callers = [t \in Callers |-> [pc |-> "idle", filled |-> FALSE, result |-> <<>>]]
    /\ \E previous \in BOOLEAN :
          /\ main = [pc |-> "start", conn |-> "none", exit |-> -1, error |-> "none",
                     i |-> 1, previous |-> previous]
          /\ fs = IF previous THEN Tree("old") ELSE AbsentTree
    /\ tasks = [t \in FileTasks \cup DirTasks |-> [pc |-> "unsubmitted", i |-> 1]]

NextExport ==
    \/ MkdirRoot
    \/ Connect
    \/ Load
    \/ Submit
    \/ \E t \in FileTasks : ExportFile(t)
    \/ \E t \in DirTasks : ExportDirRemove(t)
    \/ \E t \in DirTasks : ExportDirMkdir(t)
    \/ \E t \in DirTasks : ExportDirWrite(t)
    \/ Join
    \/ WriteLast

SpecExport == InitExport /\ [][NextExport]_vars

\* =====================================================================
\* The aggregation functions applied to result sets
\* =====================================================================

\* the lists of at most n rows out of S
SeqsUpTo(S, n) == UNION {[1..k -> S] : k \in 0..n}

\* (map_id, brawler_a, brawler_b, wins, losses)
PairRowSet ==
    {<<1, p[1], p[2], c[1], c[2]>> :
        p \in {<<1, 2>>, <<2, 1>>, <<1, 3>>}, c \in {<<1, 0>>, <<0, 1>>, <<2, 1>>}}
    \cup {<<2, 1, 2, 1, 1>>}

PairInputs ==
    [rows : SeqsUpTo(PairRowSet, MaxRows), symmetrical : BOOLEAN]

\* (map_id, rank_id, mode_id, brawler_a, brawler_b, brawler_c, wins, losses)
TrioRowSet ==
    {<<1, MIN_RANK_ID, 1, t[1], t[2], t[3], c[1], c[2]>> :
        t \in {<<1, 2, 3>>, <<3, 1, 2>>, <<4, 5, 6>>},
        c \in {<<1, 0>>, <<2, 0>>, <<0, 1>>}}
    \cup {<<1, MIN_RANK_ID + 1, 1, 1, 2, 3, 1, 0>>, <<2, MIN_RANK_ID, 2, 1, 2, 3, 1, 1>>,
          <<2, MIN_RANK_ID + 1, 2, 4, 5, 6, 0, 0>>}

TrioInputs ==
    [rows : SeqsUpTo(TrioRowSet, MaxRows), group_by_rank : BOOLEAN, min_games : {0, 2}]

\* (map_id, win_a, win_b, win_c, lose_a, lose_b, lose_c, wins)
ThreeVsThreeRowSet ==
    {<<1, o[1], o[2], o[3], o[4], o[5], o[6], w>> :
        o \in {<<1, 2, 3, 4, 5, 6>>, <<4, 5, 6, 1, 2, 3>>,
               <<3, 1, 2, 4, 5, 6>>, <<1, 2, 4, 3, 5, 6>>},
        w \in {1, 4, 5}}
    \cup {<<2, 1, 2, 3, 4, 5, 6, 4>>}

ThreeVsThreeInputs ==
    [rows : SeqsUpTo(ThreeVsThreeRowSet, MaxRows), min_games : {2, 4, 6}]

\* (map_id, brawler_id, wins, losses)
WinRateRowSet ==
    {<<1, 1, 2, 1>>, <<1, 2, 1, 2>>, <<1, 2, 0, 1>>, <<1, 1, 1, 0>>,
     <<2, 1, 1, 1>>, <<2, 1, 0, 0>>}

WinRateInputs == [rows : SeqsUpTo(WinRateRowSet, MaxRows)]

\* a call of export_pair_stats.compute_pair_rates
RunPairRates ==
    /\ output = <<>>
    /\ output' = <<compute_pair_rates(input.rows, input.symmetrical)>>
    /\ UNCHANGED <<storeVars, input, rng, runVars>>

InitPair ==
    /\ EmptyStores
    /\ input \in PairInputs
    /\ output = <<>>
    /\ rng = <<>>
    /\ NoRun

NextPair == RunPairRates

SpecPair == InitPair /\ [][NextPair]_vars

\* a call of trio_stats.compute_trio_scores
RunTrioScores ==
    /\ output = <<>>
    /\ output' = <<compute_trio_scores(input.rows, input.group_by_rank, input.min_games)>>
    /\ UNCHANGED <<storeVars, input, rng, runVars>>

InitTrio ==
    /\ EmptyStores
    /\ input \in TrioInputs
    /\ output = <<>>
    /\ rng = <<>>
    /\ NoRun

NextTrio == RunTrioScores

SpecTrio == InitTrio /\ [][NextTrio]_vars

\* a call of export_3v3_win_rates.compute_matchup_scores; the records are kept
\* with their games, as the function holds them before its last line
RunMatchupScores ==
    /\ output = <<>>
    /\ output' = <<matchup_records(input.rows, input.min_games)>>
    /\ UNCHANGED <<storeVars, input, rng, runVars>>

InitMatchup ==
    /\ EmptyStores
    /\ input \in ThreeVsThreeInputs
    /\ output = <<>>
    /\ rng = <<>>
    /\ NoRun

NextMatchup == RunMatchupScores

SpecMatchup == InitMatchup /\ [][NextMatchup]_vars

\* one more call of export_win_rates.compute_win_rates in the same process
RunWinRates ==
    /\ Len(output) < MaxRuns
    /\ LET r == compute_win_rates(input.rows, rng)
       IN  /\ output' = Append(output, [error |-> r.error, value |-> r.value])
           /\ rng' = r.state
    /\ UNCHANGED <<storeVars, input, runVars>>

InitWinRates ==
    /\ EmptyStores
    /\ input \in WinRateInputs
    /\ output = <<>>
    /\ rng = <<>>
    /\ NoRun

NextWinRates == RunWinRates

SpecWinRates == InitWinRates /\ [][NextWinRates]_vars

\* a call of any of the three functions that skip an empty partition
IsWinRateInput == DOMAIN input = {"rows"}

IsTrioInput == DOMAIN input = {"rows", "group_by_rank", "min_games"}

IsMatchupInput == DOMAIN input = {"rows", "min_games"}

InitAggregate ==
    /\ EmptyStores
    /\ input \in WinRateInputs \cup TrioInputs \cup ThreeVsThreeInputs
    /\ output = <<>>
    /\ rng = <<>>
    /\ NoRun

NextAggregate ==
    \/ IsWinRateInput /\ RunWinRates
    \/ IsTrioInput /\ RunTrioScores
    \/ IsMatchupInput /\ RunMatchupScores

SpecAggregate == InitAggregate /\ [][NextAggregate]_vars

\* =====================================================================
\* What happened, read off the battles themselves
\* =====================================================================

\* brawl_stats: the stored battles with a known winner
Decided(row) == row.winning_team \in {0, 1}

TeamIds(team) == {team[p].id : p \in DOMAIN team}

\* the characters of rank tier `rank` on side idx (0-based) of a stored battle
SideIdsAt(row, idx, rank) ==
    {row.data.teams[idx + 1][p].id :
        p \in {q \in DOMAIN row.data.teams[idx + 1] :
                  rank_from_trophies(row.data.teams[idx + 1][q].trophies)[1] = rank}}

\* src: a ranked battle handed to fetch_battle_logs is decided when the fetched
\* player is in one of its two teams and the result is a victory or a defeat.
MatchDecided(m) ==
    /\ Len(m.battle.teams) = 2
    /\ MySide(m.battle.teams, m.player_tag) # 0
    /\ m.battle.result \in {"victory", "defeat"}

MatchInWindow(m) == m.battle.rank_id >= MIN_RANK_ID /\ m.battle.day >= Since

WinnerSide(m) ==
    LET me == MySide(m.battle.teams, m.player_tag)
    IN  IF m.battle.result = "victory" THEN me ELSE 3 - me

Winners(m) == TeamIds(m.battle.teams[WinnerSide(m)])

Losers(m) == TeamIds(m.battle.teams[3 - WinnerSide(m)])

\* the decided matches of the window on one map
SourceMatches(map_id) ==
    {i \in DOMAIN matches :
        /\ MatchDecided(matches[i]) /\ MatchInWindow(matches[i])
        /\ matches[i].battle.map_id = map_id}

MapIds == {1, 2}

BrawlerIds == 1..6

\* =====================================================================
\* Claims
\* =====================================================================

UsageStats == analyze_usage(db_battle_logs)

Matchups == analyze_matchups(db_battle_logs)

WinStats == WinRateTally(<<>>, fetch_stats(Since), 1)

MatchupStats == PairTally(<<>>, fetch_matchup_stats(Since), 1)

SynergyStats == PairTally(<<>>, fetch_synergy_stats(Since), 1)

TierNames == Range(RANK_TIERS)

\* the (mode, map) pairs of the stored battles
Events == {<<db_battle_logs[i].mode, db_battle_logs[i].map>> : i \in DOMAIN db_battle_logs}

\* the stored battles of one (mode, map)
EventRows(e) ==
    {i \in DOMAIN db_battle_logs : <<db_battle_logs[i].mode, db_battle_logs[i].map>> = e}

TallySum(d, ks) ==
    SetSum(ks, [k \in ks |-> WinsOf(d, k)])

\* C1 (brawl_stats half): per (mode, map, rank) partition the wins of all keys
\* add up to the number of (battle, character on the winning side) pairs, each
\* key's wins are the battles its character won and its other games the sides
\* it was on that did not win.
C1_UsageConserved ==
    LET stats == UsageStats
    IN
    \A e \in Events, tier \in TierNames :
        LET won(c)  == {i \in EventRows(e) :
                           /\ Decided(db_battle_logs[i])
                           /\ c \in SideIdsAt(db_battle_logs[i],
                                              db_battle_logs[i].winning_team, tier)}
            notwon(c) == {t \in EventRows(e) \X (0..1) :
                           /\ t[2] < Len(db_battle_logs[t[1]].data.teams)
                           /\ t[2] # db_battle_logs[t[1]].winning_team
                           /\ c \in SideIdsAt(db_battle_logs[t[1]], t[2], tier)}
            ks == {<<e[1], e[2], tier, c>> : c \in BrawlerIds}
        IN  /\ TallySum(stats, ks)
                = Cardinality({p \in EventRows(e) \X BrawlerIds : p[1] \in won(p[2])})
            /\ \A c \in BrawlerIds :
                   /\ WinsOf(stats, <<e[1], e[2], tier, c>>) = Cardinality(won(c))
                   /\ GamesOf(stats, <<e[1], e[2], tier, c>>)
                        - WinsOf(stats, <<e[1], e[2], tier, c>>) = Cardinality(notwon(c))

\* C1 (src half): per map the wins of fetch_stats, tallied by compute_win_rates,
\* add up to the number of (match, winning character) pairs of the map's
\* decided matches; a character has one win per match won and one loss per
\* match lost.
C1_WinRatesConserved ==
    LET stats == WinStats
    IN
    \A m \in MapIds :
        LET won(c)  == {i \in SourceMatches(m) : c \in Winners(matches[i])}
            lost(c) == {i \in SourceMatches(m) : c \in Losers(matches[i])}
            ks == {<<m, c>> : c \in BrawlerIds}
        IN  /\ TallySum(stats, ks)
                = Unit * Cardinality({p \in SourceMatches(m) \X BrawlerIds : p[1] \in won(p[2])})
            /\ \A c \in BrawlerIds :
                   /\ WinsOf(stats, <<m, c>>) = Unit * Cardinality(won(c))
                   /\ GamesOf(stats, <<m, c>>) - WinsOf(stats, <<m, c>>)
                        = Unit * Cardinality(lost(c))

C2_MatchupsBalanced ==
    (\A i \in DOMAIN db_battle_logs : Decided(db_battle_logs[i])) =>
    LET stats == Matchups
    IN
    \A e \in Events, a \in BrawlerIds, b \in BrawlerIds :
        LET beat(x, y) ==
                {t \in EventRows(e) \X (1..2) \X (1..2) :
                    LET row == db_battle_logs[t[1]]
                    IN  /\ Len(row.data.teams) >= 2
                        /\ t[2] \in DOMAIN row.data.teams[row.winning_team + 1]
                        /\ t[3] \in DOMAIN row.data.teams[2 - row.winning_team]
                        /\ row.data.teams[row.winning_team + 1][t[2]].id = x
                        /\ row.data.teams[2 - row.winning_team][t[3]].id = y}
            ab == <<e[1], e[2], a, b>>
            ba == <<e[1], e[2], b, a>>
        IN  /\ GamesOf(stats, ab) = GamesOf(stats, ba)
            /\ a # b => WinsOf(stats, ab) + WinsOf(stats, ba) = GamesOf(stats, ab)
            /\ a # b => WinsOf(stats, ab) = Cardinality(beat(a, b))
            /\ a # b => GamesOf(stats, ab)
                           = Cardinality(beat(a, b)) + Cardinality(beat(b, a))

\* C2 (src half): per map, for every pair of characters the matchup rows give
\* games(A,B) = games(B,A), wins(A,B) + wins(B,A) = games(A,B), and wins(A,B)
\* is the number of decided matches in which A's side beat B's side.
C2_PairsBalanced ==
    LET stats == MatchupStats
    IN
    \A m \in MapIds, a \in BrawlerIds, b \in BrawlerIds :
        LET beat(x, y) == {i \in SourceMatches(m) :
                              x \in Winners(matches[i]) /\ y \in Losers(matches[i])}
            ab == <<m, <<a, b>> >>
            ba == <<m, <<b, a>> >>
        IN  /\ GamesOf(stats, ab) = GamesOf(stats, ba)
            /\ WinsOf(stats, ab) + WinsOf(stats, ba) = GamesOf(stats, ab)
            /\ WinsOf(stats, ab) = Cardinality(beat(a, b))
            /\ GamesOf(stats, ab) = Cardinality(beat(a, b)) + Cardinality(beat(b, a))

\* C2: matchup aggregation is directional and balanced, in both stores.
C2_Directional == C2_MatchupsBalanced /\ C2_PairsBalanced

\* C2 witness: both stores hold a decided battle, the brawl_stats store no
\* undecided one, and a matchup key of each store has a win.
C2_Witness ==
    /\ db_battle_logs # <<>>
    /\ \A i \in DOMAIN db_battle_logs : Decided(db_battle_logs[i])
    /\ \E m \in MapIds, a \in BrawlerIds, b \in BrawlerIds :
           WinsOf(MatchupStats, <<m, <<a, b>> >>) >= 1
    /\ \E k \in Keys(Matchups) : WinsOf(Matchups, k) >= 1

TrioStats == TrioTally(<<>>, fetch_trio_rows(Since), 1, FALSE)

\* C4: per map, every unordered pair of characters has one synergy win for
\* each decided match whose winning side holds both and one synergy loss for
\* each decided match whose losing side holds both, whatever the size of the
\* other side.
C4_SynergyOnePerMatch ==
    LET stats == SynergyStats
    IN
    \A m \in MapIds, a \in BrawlerIds, b \in BrawlerIds :
        a < b =>
            LET k == <<m, <<a, b>> >>
                wonTogether  == {i \in SourceMatches(m) : {a, b} \subseteq Winners(matches[i])}
                lostTogether == {i \in SourceMatches(m) : {a, b} \subseteq Losers(matches[i])}
            IN  /\ WinsOf(stats, k) = Cardinality(wonTogether)
                /\ GamesOf(stats, k) - WinsOf(stats, k) = Cardinality(lostTogether)

\* the ascending triples of characters
TrioIds ==
    {t \in BrawlerIds \X BrawlerIds \X BrawlerIds : t[1] < t[2] /\ t[2] < t[3]}

\* C6: per map, a trio has one win for each decided match whose winning side is
\* exactly its three characters and one loss for each whose losing side is; a
\* side of any other size adds to no trio.
C6_TrioExactlyThree ==
    LET stats == TrioStats
    IN
    \A m \in MapIds, t \in TrioIds :
        LET k == <<m, NoRank, t>>
            wonAs  == {i \in SourceMatches(m) : Winners(matches[i]) = Range(t)}
            lostAs == {i \in SourceMatches(m) : Losers(matches[i]) = Range(t)}
        IN  /\ WinsOf(stats, k) = Cardinality(wonAs)
            /\ GamesOf(stats, k) - WinsOf(stats, k) = Cardinality(lostAs)

\* --- claims about the aggregation functions ---------------------------------

\* the rows of the call under study
Rows == input.rows

\* sum of column col over the rows numbered ix
ColumnSum(ix, col) == SetSum(ix, [x \in ix |-> Rows[x][col]])

\* C3: in a result of compute_pair_rates with symmetrical=True, every pair (A,B)
\* of a map has its mirror (B,A) in that map and result[map][A][B] ==
\* result[map][B][A] holds as Python compares the two floats.
C3_SynergySymmetric ==
    (Len(output) = 1 /\ input.symmetrical) =>
        \A i \in DOMAIN output[1] :
            LET map_result == output[1][i].value
            IN  \A k \in Keys(map_result) :
                    /\ <<k[2], k[1]>> \in Keys(map_result)
                    /\ FloatEq(map_result[IndexOf(map_result, k)].value,
                               map_result[IndexOf(map_result, <<k[2], k[1]>>)].value)

\* the rows of the trio partition (map_id, rank_key) naming the characters S
TrioRowsOf(map_id, rank_key, S) ==
    {x \in DOMAIN Rows :
        /\ Rows[x][1] = map_id
        /\ input.group_by_rank => Rows[x][2] = rank_key
        /\ {Rows[x][4], Rows[x][5], Rows[x][6]} = S}

\* C5: in a result of compute_trio_scores every partition holds at most one
\* record per unordered trio, listed in ascending order, whose wins and games
\* are the sums over the partition's rows of every permutation of the trio;
\* and every trio of the rows with games > 0 and games >= min_games has one.
C5_TrioCanonical ==
    Len(output) = 1 =>
        /\ \A i \in DOMAIN output[1] : \A j \in DOMAIN output[1][i].value :
               LET list == output[1][i].value[j].value
                   of(r) == TrioRowsOf(output[1][i].map_id,
                                       output[1][i].value[j].rank_key, Range(r.brawlers))
               IN  /\ \A a \in DOMAIN list, b \in DOMAIN list :
                          a # b => Range(list[a].brawlers) # Range(list[b].brawlers)
                   /\ \A a \in DOMAIN list :
                          /\ list[a].brawlers[1] < list[a].brawlers[2]
                          /\ list[a].brawlers[2] < list[a].brawlers[3]
                          /\ list[a].wins = ColumnSum(of(list[a]), 7)
                          /\ list[a].games
                               = ColumnSum(of(list[a]), 7) + ColumnSum(of(list[a]), 8)
        /\ \A x \in DOMAIN Rows :
               LET rank_key == IF input.group_by_rank THEN Rows[x][2] ELSE NoRank
                   S  == {Rows[x][4], Rows[x][5], Rows[x][6]}
                   ix == TrioRowsOf(Rows[x][1], rank_key, S)
                   games == ColumnSum(ix, 7) + ColumnSum(ix, 8)
               IN  (games > 0 /\ games >= input.min_games) =>
                       \E i \in DOMAIN output[1] : \E j \in DOMAIN output[1][i].value :
                           /\ output[1][i].map_id = Rows[x][1]
                           /\ output[1][i].value[j].rank_key = rank_key
                           /\ \E a \in DOMAIN output[1][i].value[j].value :
                                  Range(output[1][i].value[j].value[a].brawlers) = S

\* C5 witness: two rows of one partition name the same trio in different
\* orders and the result holds one record for it with the games of both.
C5_Witness ==
    /\ Len(output) = 1
    /\ Len(Rows) = 2
    /\ <<Rows[1][4], Rows[1][5], Rows[1][6]>> = <<3, 1, 2>>
    /\ <<Rows[2][4], Rows[2][5], Rows[2][6]>> = <<1, 2, 3>>
    /\ Rows[1][1] = Rows[2][1] /\ Rows[1][2] = Rows[2][2]
    /\ \E a \in DOMAIN output[1][1].value[1].value :
           /\ output[1][1].value[1].value[a].brawlers = <<1, 2, 3>>
           /\ output[1][1].value[1].value[a].games
                = Rows[1][7] + Rows[1][8] + Rows[2][7] + Rows[2][8]

\* the wins the rows give on map_id to the orientation W beat L (sets)
RowWins(map_id, W, L) ==
    ColumnSum({x \in DOMAIN Rows :
                  /\ Rows[x][1] = map_id
                  /\ {Rows[x][2], Rows[x][3], Rows[x][4]} = W
                  /\ {Rows[x][5], Rows[x][6], Rows[x][7]} = L}, 8)

\* the records of map_id in the result for the orientation W beat L
RecordsOf(map_id, W, L) ==
    {e \in UNION {Range(output[1][i].value) :
                     i \in {j \in DOMAIN output[1] : output[1][j].map_id = map_id}} :
        Range(e.item.win_brawlers) = W /\ Range(e.item.lose_brawlers) = L}

Retained(map_id, W, L) == RecordsOf(map_id, W, L) # {}

RecordOf(map_id, W, L) == CHOOSE e \in RecordsOf(map_id, W, L) : TRUE

RowW(x) == {Rows[x][2], Rows[x][3], Rows[x][4]}

RowL(x) == {Rows[x][5], Rows[x][6], Rows[x][7]}

\* C7: in compute_matchup_scores a retained orientation's games are its own
\* wins plus the mirror orientation's wins (0 without a mirror) and its
\* win_rate is own wins over games; when both orientations have rows they are
\* retained or dropped together, with the same games and win_rates summing to 1.
C7_MirrorGames ==
    Len(output) = 1 =>
        /\ \A i \in DOMAIN output[1] : \A j \in DOMAIN output[1][i].value :
               LET e == output[1][i].value[j]
                   m == output[1][i].map_id
                   W == Range(e.item.win_brawlers)
                   L == Range(e.item.lose_brawlers)
               IN  /\ e.key[2] = RowWins(m, W, L) + RowWins(m, L, W)
                   /\ e.item.win_rate = Ratio(RowWins(m, W, L), e.key[2])
        /\ \A x \in DOMAIN Rows, y \in DOMAIN Rows :
               (Rows[x][1] = Rows[y][1] /\ RowW(x) = RowL(y) /\ RowL(x) = RowW(y)) =>
                   LET m == Rows[x][1]
                   IN  /\ Retained(m, RowW(x), RowL(x)) <=> Retained(m, RowL(x), RowW(x))
                       /\ Retained(m, RowW(x), RowL(x)) =>
                              LET r == RecordOf(m, RowW(x), RowL(x))
                                  s == RecordOf(m, RowL(x), RowW(x))
                              IN  /\ r.key[2] = s.key[2]
                                  /\ r.item.win_rate.num * s.item.win_rate.den
                                       + s.item.win_rate.num * r.item.win_rate.den
                                     = r.item.win_rate.den * s.item.win_rate.den

\* C7 witness: the pairing {1,2,3} against {4,5,6} was won 5 times one way and
\* once the other, and both orientations are in the result with 6 games.
C7_Witness ==
    /\ Len(output) = 1
    /\ RowWins(1, {1, 2, 3}, {4, 5, 6}) = 5
    /\ RowWins(1, {4, 5, 6}, {1, 2, 3}) = 1
    /\ Retained(1, {1, 2, 3}, {4, 5, 6}) /\ Retained(1, {4, 5, 6}, {1, 2, 3})
    /\ RecordOf(1, {1, 2, 3}, {4, 5, 6}).key[2] = 6
    /\ RecordOf(1, {4, 5, 6}, {1, 2, 3}).key[2] = 6

\* the combined games the rows give the pairing of row x
RowGames(x) ==
    RowWins(Rows[x][1], RowW(x), RowL(x)) + RowWins(Rows[x][1], RowL(x), RowW(x))

\* the rows of the orientations whose combined games reach the threshold thr
KeptRows(thr) ==
    LET kept == {x \in DOMAIN Rows : RowGames(x) >= thr}
    IN  SelectSeq([x \in DOMAIN Rows |-> IF x \in kept THEN Rows[x] ELSE <<>>],
                  LAMBDA r : r # <<>>)

\* with threshold thr: the orientations in the result are exactly those of
\* the rows with combined games >= thr, and each map's list is the one the
\* function gives for the rows of those orientations alone
KeepsFrom(thr) ==
    Len(output) = 1 =>
        /\ \A x \in DOMAIN Rows :
               Retained(Rows[x][1], RowW(x), RowL(x)) <=> RowGames(x) >= thr
        /\ \A i \in DOMAIN output[1] : \A j \in DOMAIN output[1][i].value :
               \E x \in DOMAIN Rows :
                   /\ Rows[x][1] = output[1][i].map_id
                   /\ RowW(x) = Range(output[1][i].value[j].item.win_brawlers)
                   /\ RowL(x) = Range(output[1][i].value[j].item.lose_brawlers)
        /\ LET alone == matchup_records(KeptRows(thr), input.min_games)
           IN  \A a \in DOMAIN alone :
                   \E i \in DOMAIN output[1] :
                       /\ output[1][i].map_id = alone[a].map_id
                       /\ output[1][i].value = alone[a].value

C9_Descending ==
    Len(output) = 1 =>
        \A i \in DOMAIN output[1] :
            LET records == output[1][i].value
            IN  \A j \in DOMAIN records :
                    j < Len(records) =>
                        \/ FloatLess(records[j + 1].key[1], records[j].key[1])
                        \/ /\ FloatEq(records[j].key[1], records[j + 1].key[1])
                           /\ records[j].key[2] >= records[j + 1].key[2]

\* C10: every call of compute_win_rates on the same rows in one process returns
\* the same output.
C10_Deterministic ==
    \A i \in DOMAIN output, j \in DOMAIN output : output[i] = output[j]

\* ---------------------------------------------------------------------
\* the <<alpha_post, beta_post>> numerators handed to beta_lcb for the groups
\* of one partition
PosteriorParams(groups) ==
    LET tw == TotalWins(groups)
        tl == TotalGames(groups) - tw
        n  == Len(groups)
    IN  {<<alpha_post(tw, n, groups[i].wins),
           beta_post(tl, n, groups[i].games - groups[i].wins)>> : i \in DOMAIN groups}

\* C11: in a call of compute_pair_rates, both posterior parameters handed to
\* the quantile function are strictly positive for every pair of every map
\* that has games, also when the map's mean win rate is exactly 0 or 1.
C11_PosteriorsPositive ==
    output # <<>> =>
        LET stats == PairTally(<<>>, Rows, 1)
        IN  \A m \in Range(MapsOf(stats)) :
                TotalGames(OfMap(stats, m)) # 0 =>
                    \A p \in PosteriorParams(OfMap(stats, m)) : p[1] > 0 /\ p[2] > 0

\* ---------------------------------------------------------------------
\* the entry of a result under map_id, as a set (empty when there is none)
EntriesOf(result, map_id) == {result[i].value : i \in {j \in DOMAIN result : result[j].map_id = map_id}}

\* compute_win_rates: the maps whose total games is 0 map to {} and the rest
\* of the result, an error included, is what the other rows alone give
EmptyMapsSkipped ==
    LET stats == WinRateTally(<<>>, Rows, 1)
        empty == {m \in Range(MapsOf(stats)) : TotalGames(OfMap(stats, m)) = 0}
        rest  == compute_win_rates(SelectSeq(Rows, LAMBDA r : r[1] \notin empty), <<>>)
        got   == output[1]
    IN  /\ got.error = rest.error
        /\ ~got.error =>
            /\ \A m \in empty : EntriesOf(got.value, m) = {<<>>}
            /\ {e \in Range(got.value) : e.map_id \notin empty} = Range(rest.value)

\* compute_trio_scores: the (map, rank_key) partitions whose total games is 0
\* map to [] and the other partitions are what the other rows alone give
EmptyRanksSkipped ==
    LET stats == TrioTally(<<>>, Rows, 1, input.group_by_rank)
        Part(k) == SelectSeq(stats, LAMBDA e : e.key[1] = k[1] /\ e.key[2] = k[2])
        empty == {k \in {<<stats[i].key[1], stats[i].key[2]>> : i \in DOMAIN stats} :
                     TotalGames(Part(k)) <= 0}
        KeyOf(r) == <<r[1], IF input.group_by_rank THEN r[2] ELSE NoRank>>
        rest  == compute_trio_scores(SelectSeq(Rows, LAMBDA r : KeyOf(r) \notin empty),
                                     input.group_by_rank, input.min_games)
        got   == output[1]
        Flat(result) ==
            UNION {{<<result[i].map_id, result[i].value[j].rank_key,
                      result[i].value[j].value>> : j \in DOMAIN result[i].value} :
                   i \in DOMAIN result}
    IN  /\ \A k \in empty :
                \A ranks \in EntriesOf(got, k[1]) :
                    \E j \in DOMAIN ranks : ranks[j].rank_key = k[2] /\ ranks[j].value = <<>>
        /\ \A k \in empty : EntriesOf(got, k[1]) # {}
        /\ {x \in Flat(got) : <<x[1], x[2]>> \notin empty} = Flat(rest)

\* compute_matchup_scores: the maps without a retained orientation map to []
\* and the other maps are what the other rows alone give
EmptyOrientationsSkipped ==
    LET stats == ThreeVsThreeTally(<<>>, Rows, 1)
        empty == {m \in Range(MapsOf(stats)) :
                     OrientationStats(OfMap(stats, m), input.min_games) = <<>>}
        rest  == matchup_records(SelectSeq(Rows, LAMBDA r : r[1] \notin empty),
                                 input.min_games)
        got   == output[1]
    IN  /\ \A m \in empty : EntriesOf(got, m) = {<<>>}
        /\ {e \in Range(got) : e.map_id \notin empty} = Range(rest)

\* C12: a partition that has no groups or whose total games is 0 yields the
\* empty result for its key, and the result for the remaining partitions is
\* the one the function gives without that partition: the empty partition
\* raises no error and changes nothing of the others.  The results are
\* compared as Python compares dicts, whatever the order of their keys.
C12_EmptyPartitionSkipped ==
    output # <<>> =>
        /\ IsWinRateInput => EmptyMapsSkipped
        /\ IsTrioInput => EmptyRanksSkipped
        /\ IsMatchupInput => EmptyOrientationsSkipped

\* a call of compute_win_rates on a map without games followed by a map with
\* games: the first maps to {} and the second got its rates
C12_Witness ==
    /\ output # <<>>
    /\ IsWinRateInput
    /\ Rows = <<<<2, 1, 0, 0>>, <<1, 1, 2, 1>>>>
    /\ ~output[1].error
    /\ EntriesOf(output[1].value, 2) = {<<>>}
    /\ \A v \in EntriesOf(output[1].value, 1) : v # <<>>

\* ---------------------------------------------------------------------
\* the records of a call of compute_trio_scores or compute_matchup_scores, each
\* with the tallies of its partition:
\* [win_rate, win_rate_lcb, total_wins, total_games]
ScoredRecords ==
    IF output = <<>> \/ IsWinRateInput THEN {}
    ELSE IF IsTrioInput
    THEN LET stats == TrioTally(<<>>, Rows, 1, input.group_by_rank)
             Part(m, rk) == SelectSeq(stats, LAMBDA e : e.key[1] = m /\ e.key[2] = rk)
             got == output[1]
         IN  UNION {UNION {{[win_rate     |-> got[i].value[j].value[k].win_rate,
                             win_rate_lcb |-> got[i].value[j].value[k].win_rate_lcb,
                             total_wins   |-> TotalWins(Part(got[i].map_id,
                                                             got[i].value[j].rank_key)),
                             total_games  |-> TotalGames(Part(got[i].map_id,
                                                              got[i].value[j].rank_key))] :
                                k \in DOMAIN got[i].value[j].value} :
                           j \in DOMAIN got[i].value} :
                    i \in DOMAIN got}
    ELSE LET stats == ThreeVsThreeTally(<<>>, Rows, 1)
             Part(m) == OrientationStats(OfMap(stats, m), input.min_games)
             got == output[1]
         IN  UNION {{[win_rate     |-> got[i].value[k].item.win_rate,
                      win_rate_lcb |-> got[i].value[k].item.win_rate_lcb,
                      total_wins   |-> TotalWins(Part(got[i].map_id)),
                      total_games  |-> TotalGames(Part(got[i].map_id))] :
                        k \in DOMAIN got[i].value} :
                    i \in DOMAIN got}

C14_UndecidedExcluded ==
    LET decided == SelectSeq(db_battle_logs, Decided)
    IN  /\ analyze_usage(db_battle_logs) = analyze_usage(decided)
        /\ analyze_matchups(db_battle_logs) = analyze_matchups(decided)

\* ---------------------------------------------------------------------
\* the win/lose rows stored for a battle
RowsOfBattle(b) == {r \in win_lose_logs : r.battle_log_id = b}

\* C15: for every RankedBattle of the dataset returned by
\* load_recent_ranked_battles, win_brawlers and lose_brawlers are disjoint.
C15_SidesDisjoint ==
    \A i \in DOMAIN dataset.battles :
        Range(dataset.battles[i].win_brawlers)
            \cap Range(dataset.battles[i].lose_brawlers) = {}

\* C16: every battle the battle query returned whose rank log was loaded
\* yields exactly one RankedBattle, with that rank log's map, rank and mode;
\* each side holds exactly the ids of the battle's stored rows as a strictly
\* ascending tuple, so a battle without win/lose rows has two empty sides.
C16_OneBattleEach ==
    dataset.loaded =>
        LET loaded == {loader.rank_logs[j].id : j \in DOMAIN loader.rank_logs}
            seen == {e \in Range(loader.battle_rank_map) : e.rank_log_id \in loaded}
            Ascending(s) == \A x, y \in DOMAIN s : x < y => s[x] < s[y]
        IN  /\ Len(dataset.battles) = Cardinality(seen)
            /\ \A e \in seen :
                   \E i \in DOMAIN dataset.battles :
                       LET b == dataset.battles[i]
                           rl == rank_logs[e.rank_log_id]
                       IN  /\ b.battle_log_id = e.battle_log_id
                           /\ b.rank_log_id = e.rank_log_id
                           /\ b.map_id = rl.map_id
                           /\ b.rank_id = rl.rank_id
                           /\ b.mode_id = ModeOf(rl.map_id)
                           /\ Range(b.win_brawlers) =
                                  {r.win_brawler_id : r \in RowsOfBattle(e.battle_log_id)}
                           /\ Range(b.lose_brawlers) =
                                  {r.lose_brawler_id : r \in RowsOfBattle(e.battle_log_id)}
                           /\ Ascending(b.win_brawlers) /\ Ascending(b.lose_brawlers)
                           /\ RowsOfBattle(e.battle_log_id) = {} =>
                                  b.win_brawlers = <<>> /\ b.lose_brawlers = <<>>

\* a dataset holding a battle without rows (two empty sides) next to a 3v3
\* with two ascending sides
C16_Witness ==
    /\ dataset.loaded
    /\ \E i, j \in DOMAIN dataset.battles :
          /\ dataset.battles[i].win_brawlers = <<>>
          /\ dataset.battles[i].lose_brawlers = <<>>
          /\ dataset.battles[j].win_brawlers = <<1, 2, 3>>
          /\ dataset.battles[j].lose_brawlers = <<4, 5, 6>>

\* ---------------------------------------------------------------------
\* the index a dataset stands for: every rank log with a battle that has
\* members, mapped to all brawlers on either side of any of its battles
IndexOfDataset ==
    LET Members(k) ==
            UNION {Range(dataset.battles[i].win_brawlers)
                       \cup Range(dataset.battles[i].lose_brawlers) :
                   i \in {j \in DOMAIN dataset.battles :
                             dataset.battles[j].rank_log_id = k}}
        keys == {k \in {dataset.battles[i].rank_log_id : i \in DOMAIN dataset.battles} :
                    Members(k) # {}}
    IN  [k \in keys |-> Members(k)]

\* C17: whether the cache was filled by the loader or by the first calls, and
\* however the calls of the threads interleave, participants_by_rank_log
\* returns the index of the dataset's battles, the same to every caller, and
\* no step of a call changes rank_logs, battles or star_logs.
C17_SameIndex ==
    /\ [](\A t \in Callers : callers[t].pc = "done" => callers[t].result = IndexOfDataset)
    /\ [](dataset.loaded /\ ~dataset.participants_cache.none =>
              dataset.participants_cache.index = IndexOfDataset)
    /\ [][dataset.loaded =>
              /\ dataset'.rank_logs = dataset.rank_logs
              /\ dataset'.battles = dataset.battles
              /\ dataset'.star_logs = dataset.star_logs]_vars

\* the loader left the cache unset; both threads found it so, each filled it
\* before either returned, and both calls have returned
C17_Witness ==
    /\ \A t \in Callers : callers[t].pc = "done" /\ callers[t].filled
    /\ dataset.battles # <<>>

\* ---------------------------------------------------------------------
\* the output tree as the run found it
TreeAtStart == IF main.previous THEN Tree("old") ELSE AbsentTree

\* C18: when a task of the combined run has failed and the run has ended
\* with that failure, nothing of the run is published: no output file and no
\* output directory was created, replaced or deleted.
C18_NothingPublished ==
    main.pc = "exited" /\ main.error = "task" =>
        /\ \A d \in DOMAIN fs : fs[d].files = TreeAtStart[d].files
        /\ \A d \in DirTasks : fs[d].exists = TreeAtStart[d].exists

\* C19: when connecting or loading raises a storage error the run ends with
\* a non-zero exit before any task is submitted and with every JSON file of
\* the output tree as it was; the connection, once opened, is closed before
\* the tasks start and whenever the run has ended.
C19_StorageErrorEndsRun ==
    /\ main.error = "storage" =>
          /\ main.pc = "exited" /\ main.exit = 1
          /\ \A t \in DOMAIN tasks : tasks[t].pc = "unsubmitted"
          /\ \A d \in DOMAIN fs : fs[d].files = TreeAtStart[d].files
    /\ (\E t \in DOMAIN tasks : tasks[t].pc # "unsubmitted") =>
          main.conn = "closed" /\ dataset.loaded
    /\ main.pc = "exited" =>
          /\ main.conn # "open"
          /\ main.conn = "none" => main.error = "storage"
          /\ main.exit = 0 <=> main.error = "none"

\* the load raised over a previous run's output: the run has ended with exit
\* code 1, the connection is closed and the previous files are all there
C19_Witness ==
    /\ main.error = "storage"
    /\ main.conn = "closed"
    /\ main.exit = 1
    /\ main.previous
    /\ \A d \in DOMAIN fs : fs[d].files = Tree("old")[d].files

\* C20: at every moment each output directory is either the complete
\* previous output or the complete new one, never missing, empty or partial,
\* also when its exporter fails midway.
C20_DirectoryAtomic ==
    \A d \in DirTasks : fs[d] \in {TreeAtStart[d], Tree("new")[d]}

\* =====================================================================
\* The directory exporters run on their own: src.export_pair_stats.main,
\* _export_pair_stats, export_trio_json and export_matchup_json, each over a
\* destination that holds the files of an earlier result
\* =====================================================================

DirExporters ==
    {"export_pair_stats.main", "_export_pair_stats", "export_trio_json",
     "export_matchup_json"}

\* the destination of an exporter
DirOf(e) ==
    IF e \in {"export_pair_stats.main", "_export_pair_stats"} THEN "pair_stats"
    ELSE IF e = "export_trio_json" THEN "trio_stats"
    ELSE "three_vs_three"

\* if output_dir.exists(): shutil.rmtree(output_dir) is the first statement of
\* every exporter but export_pair_stats.main, which goes straight to mkdir
RemovesFirst(e) == e # "export_pair_stats.main"

\* the map of a file: "<kind>/<map_id>.json" for pairs, "<map_id>.json" else
MapOfFile(d, f) == IF d = "pair_stats" THEN f[2] ELSE f

\* the files of a result that holds the given maps, in the order of the loops
ResultFiles(d, maps) ==
    LET Holds(f) == MapOfFile(d, f) \in maps
    IN  SelectSeq(FilesOf(d), Holds)

\* the tree an earlier run left for a result with the given maps
EarlierTree(maps) ==
    [d \in {"root"} \cup DirTasks |->
        [exists |-> TRUE,
         files |-> [f \in Range(FilesOf(d)) |->
                       IF d # "root" /\ MapOfFile(d, f) \in maps
                       THEN "old" ELSE Absent]]]

\* the exporter's first statement
RunRemove(e) ==
    /\ tasks[e].pc = "start"
    /\ tasks' = [tasks EXCEPT ![e].pc = "mkdir"]
    /\ fs' = IF RemovesFirst(e) /\ fs[DirOf(e)].exists
             THEN rmtree(fs, DirOf(e)) ELSE fs
    /\ UNCHANGED <<storeVars, computeVars, loadVars, main>>

\* output_dir.mkdir(parents=True, exist_ok=True)
RunMkdir(e) ==
    /\ tasks[e].pc = "mkdir"
    /\ tasks' = [tasks EXCEPT
                    ![e].pc = IF ResultFiles(DirOf(e), input.result) = <<>>
                              THEN "done" ELSE "write"]
    /\ fs' = mkdir(fs, DirOf(e))
    /\ UNCHANGED <<storeVars, computeVars, loadVars, main>>

\* for map_id, data in result.items(): open(out_file, "w"), json.dump
RunWrite(e) ==
    /\ tasks[e].pc = "write"
    /\ LET files == ResultFiles(DirOf(e), input.result)
           f == files[tasks[e].i]
       IN  \/ /\ fs' = write_json(fs, DirOf(e), f, FALSE)
              /\ tasks' = [tasks EXCEPT
                              ![e].pc = IF tasks[e].i = Len(files) THEN "done" ELSE "write",
                              ![e].i = tasks[e].i + 1]
           \/ /\ fs' = write_json(fs, DirOf(e), f, TRUE)
              /\ tasks' = [tasks EXCEPT ![e].pc = "failed"]
    /\ UNCHANGED <<storeVars, computeVars, loadVars, main>>

\* one exporter, the maps of its result and the maps of the earlier result
InitDirExport ==
    /\ EmptyStores
    /\ output = <<>>
    /\ rng = <<>>
    /\ loader = [pc |-> "rank_logs", rank_logs |-> <<>>, battle_rank_map |-> <<>>,
                 battle_teams |-> <<>>]
    /\ dataset = [loaded |-> FALSE, rank_logs |-> <<>>, battles |-> <<>>,
                  star_logs |-> <<>>, participants_cache |-> NoCache]
    /\ callers = [t \in Callers |-> [pc |-> "idle", filled |-> FALSE, result |-> <<>>]]
    /\ main = [pc |-> "idle", conn |-> "none", exit |-> -1, error |-> "none",
               i |-> 1, previous |-> TRUE]
    /\ \E result \in SUBSET ResultMaps, earlier \in SUBSET ResultMaps :
          /\ input = [result |-> result, earlier |-> earlier]
          /\ fs = EarlierTree(earlier)
    /\ \E e \in DirExporters : tasks = [x \in {e} |-> [pc |-> "start", i |-> 1]]

NextDirExport ==
    \/ \E e \in DOMAIN tasks : RunRemove(e)
    \/ \E e \in DOMAIN tasks : RunMkdir(e)
    \/ \E e \in DOMAIN tasks : RunWrite(e)

SpecDirExport == InitDirExport /\ [][NextDirExport]_vars

\* C21: after a directory exporter finished successfully its destination
\* holds one file of this run for every map of the result and no other file:
\* a map of the earlier result that the new result lacks has no file.
C21_NoStaleOutput ==
    \A e \in DOMAIN tasks :
        tasks[e].pc = "done" /\ DOMAIN input = {"result", "earlier"} =>
            \A f \in DOMAIN fs[DirOf(e)].files :
                fs[DirOf(e)].files[f] =
                    IF MapOfFile(DirOf(e), f) \in input.result THEN "new" ELSE Absent

\* =====================================================================
\* Claims about the collection into the sqlite store
\* =====================================================================

\* what fetch_and_store_from_api(player_tag) returns when the API answers with
\* the items: the count of its item loop
StoredBy(logs, ps, player_tag, items) ==
    StoreItems([logs |-> logs, players |-> ps, stored |-> 0], items, player_tag)

\* the rows of a table that hold the key of an item
RowsWithKeyOf(logs, item) ==
    {j \in DOMAIN logs :
        /\ logs[j].battle_time = item.battleTime
        /\ logs[j].star_player_tag = normalize_tag(item.star.tag)}

FetchReturnsInserted(player_tag, items) ==
    LET first == StoredBy(db_battle_logs, players, player_tag, items)
        again == StoredBy(db_battle_logs', players', player_tag, items)
    IN  fetch_and_store_from_api(player_tag, items) =>
            /\ Len(db_battle_logs') = Len(db_battle_logs) + first.stored
            /\ SubSeq(db_battle_logs', 1, Len(db_battle_logs)) = db_battle_logs
            /\ \A i \in DOMAIN items :
                   Cardinality(RowsWithKeyOf(db_battle_logs', items[i])) = 1
            /\ again.stored = 0
            /\ again.logs = db_battle_logs'

\* C22: fetch_and_store_from_api returns the number of battle_logs rows it
\* inserted: the table grows by the returned value and keeps its earlier rows,
\* every fetched battle is stored exactly once under its (battle time, star
\* player tag) key, and fetching the same items again returns 0 and leaves
\* battle_logs as it is.
C22_ReturnsInserted ==
    [][\A player_tag \in FetchTags, items \in ApiResponses :
           FetchReturnsInserted(player_tag, items)]_vars

\* two battles stored, one of them without a star player, and an earlier
\* fetch marked its player as fetched
C22_Witness ==
    /\ Len(db_battle_logs) = 2
    /\ \E j \in DOMAIN db_battle_logs : db_battle_logs[j].star_player_tag = <<>>
    /\ \E t \in DOMAIN players : players[t] = 1

\* =====================================================================
\* src.fetch_battlelog.request_with_retry: the retry loop of one API call
\* =====================================================================

MAX_RETRIES == 3

\* what SESSION.request can do: answer with a status, or raise requests.Timeout
\* or another requests.RequestException that carries no response
Outcomes == {"200", "404", "429", "500", "timeout", "connection"}

\* a status that is never the one looked for
NeverNotFound(status) == FALSE

\* resp.status_code == 404 / status_code == 404
not_found(status) == status = "404"

\* the status_code of the exception handler:
\* getattr(getattr(e, "response", None), "status_code", None)
StatusOf(outcome) == IF outcome \in {"timeout", "connection"} THEN "None" ELSE outcome

\* one pass of the loop body: time.sleep(request_interval), SESSION.request,
\* the 404 test, resp.raise_for_status() and the handler of what was raised
Request ==
    /\ DOMAIN output = {"pc", "attempt", "requests", "resp", "status_code"}
    /\ output.pc = "loop"
    /\ output.attempt <= input.max_retries
    /\ \E outcome \in Outcomes :
          LET sent == [output EXCEPT !.requests = Append(@, outcome)]
          IN  output' =
                IF outcome = "timeout"
                THEN [sent EXCEPT !.attempt = @ + 1]
                ELSE IF not_found(StatusOf(outcome))
                THEN [sent EXCEPT !.pc = "returned", !.resp = "None",
                                  !.status_code = "404"]
                ELSE IF outcome = "200"
                THEN [sent EXCEPT !.pc = "returned", !.resp = "response",
                                  !.status_code = "None"]
                ELSE IF output.attempt = input.max_retries
                THEN [sent EXCEPT !.pc = "returned", !.resp = "None",
                                  !.status_code = StatusOf(outcome)]
                ELSE [sent EXCEPT !.pc = "wait"]
    /\ UNCHANGED <<storeVars, input, rng, runVars>>

\* wait = 3 * attempt; time.sleep(wait); the next attempt
Backoff ==
    /\ DOMAIN output = {"pc", "attempt", "requests", "resp", "status_code"}
    /\ output.pc = "wait"
    /\ output' = [output EXCEPT !.pc = "loop", !.attempt = @ + 1]
    /\ UNCHANGED <<storeVars, input, rng, runVars>>

\* the loop is over: return None, None
Exhausted ==
    /\ DOMAIN output = {"pc", "attempt", "requests", "resp", "status_code"}
    /\ output.pc = "loop"
    /\ output.attempt > input.max_retries
    /\ output' = [output EXCEPT !.pc = "returned", !.resp = "None",
                                !.status_code = "None"]
    /\ UNCHANGED <<storeVars, input, rng, runVars>>

\* a call with max_retries from 0 to the default
InitRetry ==
    /\ EmptyStores
    /\ rng = <<>>
    /\ NoRun
    /\ \E max_retries \in 0..MAX_RETRIES : input = [max_retries |-> max_retries]
    /\ output = [pc |-> "loop", attempt |-> 1, requests |-> <<>>,
                 resp |-> "None", status_code |-> "None"]

NextRetry == Request \/ Backoff \/ Exhausted

\* every request returns or times out (REQUEST_TIMEOUT) and every sleep ends,
\* so a step that can be taken is taken
SpecRetry == InitRetry /\ [][NextRetry]_vars /\ WF_vars(NextRetry)

\* the requests sent so far obey the contract of the call
RetryContract ==
    LET sent == output.requests
        n == Len(sent)
        Final(i) == sent[i] \in {"200", "404"}
    IN  /\ n <= input.max_retries
        /\ \A i \in 1..n : Final(i) =>
               /\ i = n
               /\ output.pc = "returned"
               /\ output.resp = (IF sent[i] = "200" THEN "response" ELSE "None")
               /\ output.status_code = (IF sent[i] = "200" THEN "None" ELSE "404")
        /\ output.pc = "returned" /\ (n = 0 \/ ~Final(n)) =>
               /\ n = input.max_retries
               /\ output.resp = "None"
               /\ output.status_code = (IF n = 0 THEN "None" ELSE StatusOf(sent[n]))

\* C23: request_with_retry sends at most max_retries requests; it returns
\* (response, None) as soon as a request succeeds and (None, 404) at the first
\* 404, each without a further request; after any other failure it returns
\* (None, status_code) only when max_retries requests have failed; and it
\* always returns.
C23_RetryBounded ==
    /\ [](DOMAIN input = {"max_retries"} => RetryContract)
    /\ <>(output.pc = "returned")

\* the call gave up after three failures of different kinds with the status
\* of the last one
C23_Witness ==
    /\ DOMAIN input = {"max_retries"}
    /\ output.pc = "returned"
    /\ output.requests = <<"timeout", "500", "429">>
    /\ output.resp = "None"
    /\ output.status_code = "429"

\* =====================================================================
\* src.fetch_battlelog.fetch_battle_logs: the loop over one player's battle
\* log, with the locals that live across its passes.  The tables are sets of
\* rows here; rank_logs keeps the rank that is looked up in RANK_TO_ID.
\* =====================================================================

MaxLog == 3

\* a player of a team: tag, brawler.id, brawler.trophies
LogPlayer(tag, id, trophies) == [tag |-> tag, id |-> id, trophies |-> trophies]

\* the teams a battle can hold: two teams with the fetched player "A" in the
\* first, the same with lower ranks, no team, three teams, two teams without "A"
LogTeams ==
    [two   |-> << <<LogPlayer("A", 1, 17), LogPlayer("B", 2, 23)>>,
                  <<LogPlayer("C", 3, 20), LogPlayer("D", 4, 0)>> >>,
     low   |-> << <<LogPlayer("A", 1, 16)>>, <<LogPlayer("C", 3, 15)>> >>,
     none  |-> <<>>,
     three |-> << <<LogPlayer("A", 1, 17)>>, <<LogPlayer("C", 3, 17)>>,
                  <<LogPlayer("D", 4, 17)>> >>,
     other |-> << <<LogPlayer("B", 2, 17)>>, <<LogPlayer("C", 3, 17)>> >>]

\* a soloRanked battle inside the retention window as the loop reads it; star
\* is starPlayer.tag, "" when starPlayer is null
LogBattle(teams, result, star) == [teams |-> teams, result |-> result, star |-> star]

LogBattles ==
    {LogBattle(LogTeams.two, "victory", "C"),
     LogBattle(LogTeams.two, "defeat", ""),
     LogBattle(LogTeams.two, "draw", ""),
     LogBattle(LogTeams.two, UnknownResult, "C"),
     LogBattle(LogTeams.low, "victory", "C"),
     LogBattle(LogTeams.none, "victory", "C"),
     LogBattle(LogTeams.three, "victory", ""),
     LogBattle(LogTeams.other, "victory", "")}

\* battleTime of the battle at a position of a log, which is newest first
TimeAt(log, k) == Len(log) - k + 1

\* rank_log_id = f"{battle_time}_{star_player_tag}"
RankLogId(log, k) == <<TimeAt(log, k), log[k].star>>

\* the players of all teams in the order of the two loops
LogPlayers(teams) ==
    LET flat[i \in 0..Len(teams)] == IF i = 0 THEN <<>> ELSE flat[i - 1] \o teams[i]
    IN  flat[Len(teams)]

\* if rank < trophies <= 22: rank = trophies, over the players of a battle
RankAfter(rank, teams) ==
    LET higher == {p.trophies : p \in {q \in Range(LogPlayers(teams)) :
                                         rank < q.trophies /\ q.trophies <= 22}}
    IN  IF higher = {} THEN rank ELSE CHOOSE t \in higher : \A u \in higher : u <= t

\* INSERT IGNORE INTO players(tag) for the players with 15 < trophies <= 22
InsertRanked(ps, teams) ==
    LET tags == {p.tag : p \in {q \in Range(LogPlayers(teams)) :
                                  q.tag # "" /\ 15 < q.trophies /\ q.trophies <= 22}}
    IN  [t \in DOMAIN ps \cup tags |-> IF t \in DOMAIN ps THEN ps[t] ELSE "default"]

\* p_tag before any player was read
Unbound == "<unbound>"

\* p_tag after the team loops: the tag of the last player read
LastTag(p_tag, teams) ==
    IF LogPlayers(teams) = <<>> THEN p_tag
    ELSE LogPlayers(teams)[Len(LogPlayers(teams))].tag

\* new_rank_flag once the starred battle is found recorded
FlagKept == TRUE

FlagWhenRecorded == FALSE

IsLoop ==
    /\ DOMAIN input = {"player_tag", "log", "recorded"}
    /\ output.pc = "loop"
    /\ output.i <= Len(input.log)

\* a pass that ends at a continue before the teams are read: the starred
\* battle's rank log is recorded, or the battle has no star player and
\* new_rank_flag is off
SkipBattle ==
    /\ IsLoop
    /\ LET k == output.i
           b == input.log[k]
       IN  \/ /\ b.star # ""
              /\ \E r \in rank_logs : r.id = RankLogId(input.log, k)
              /\ output' = [output EXCEPT !.i = k + 1,
                                          !.new_rank_flag = FlagWhenRecorded,
                                          !.rank_log_id = RankLogId(input.log, k)]
           \/ /\ b.star = ""
              /\ ~output.new_rank_flag
              /\ output' = [output EXCEPT !.i = k + 1]
    /\ UNCHANGED <<storeVars, input, rng, runVars>>

\* a pass that reads the teams: players, rank and p_tag; for a starred battle
\* the rank log (another worker may have inserted it since the SELECT: the
\* duplicate-entry handler); then the battle and its win/lose rows
RecordBattle ==
    /\ IsLoop
    /\ LET k == output.i
           b == input.log[k]
           starred == b.star # ""
           rank == RankAfter(output.rank, b.teams)
           p_tag == LastTag(output.p_tag, b.teams)
           rank_log_id == IF starred THEN RankLogId(input.log, k) ELSE output.rank_log_id
           battle_log_id == <<TimeAt(input.log, k), p_tag>>
           read == [output EXCEPT !.rank = rank, !.p_tag = p_tag,
                                  !.rank_log_id = rank_log_id]
       IN  /\ \/ starred /\ ~\E r \in rank_logs : r.id = RankLogId(input.log, k)
              \/ ~starred /\ output.new_rank_flag
           /\ players' = InsertRanked(players, b.teams)
           /\ \/ /\ starred
                 /\ rank_logs' = rank_logs \cup
                        {[id |-> rank_log_id, rank |-> RankAfter(0, b.teams), by |-> "other"]}
                 /\ output' = [read EXCEPT !.i = k + 1, !.new_rank_flag = FALSE]
                 /\ UNCHANGED <<battle_logs, win_lose_logs>>
              \/ /\ rank_logs' = IF starred
                                 THEN rank_logs \cup
                                          {[id |-> rank_log_id, rank |-> rank, by |-> "call"]}
                                 ELSE rank_logs
                 /\ IF p_tag = Unbound
                    THEN /\ output' = [read EXCEPT !.pc = "raised",
                                                   !.new_rank_flag = TRUE]
                         /\ UNCHANGED <<battle_logs, win_lose_logs>>
                    ELSE IF \E r \in battle_logs : r.id = battle_log_id
                    THEN /\ output' = [read EXCEPT !.i = k + 1, !.new_rank_flag = TRUE]
                         /\ UNCHANGED <<battle_logs, win_lose_logs>>
                    ELSE /\ output' = [read EXCEPT !.i = k + 1, !.new_rank_flag = TRUE]
                         /\ battle_logs' = battle_logs \cup
                                {[id |-> battle_log_id, rank_log_id |-> rank_log_id]}
                         /\ win_lose_logs' = win_lose_logs \cup
                                WinLosePairs(ResultInfo(b, input.player_tag), battle_log_id)
    /\ UNCHANGED <<matches, db_battle_logs, input, rng, runVars>>

\* after the loop: conn.commit(); return
ReturnCounts ==
    /\ DOMAIN input = {"player_tag", "log", "recorded"}
    /\ output.pc = "loop"
    /\ output.i > Len(input.log)
    /\ output' = [output EXCEPT !.pc = "returned"]
    /\ UNCHANGED <<storeVars, input, rng, runVars>>

\* the call for player "A" at the start of its loop: a battle log of up to
\* MaxLog battles, and the rank logs of some of its starred battles recorded
\* by earlier calls
InitFetchLoop ==
    /\ NoRun
    /\ rng = <<>>
    /\ matches = <<>>
    /\ db_battle_logs = <<>>
    /\ battle_logs = {}
    /\ win_lose_logs = {}
    /\ players = [t \in {"A"} |-> "fetched"]
    /\ \E n \in 1..MaxLog : \E log \in [1..n -> LogBattles] :
          \E recorded \in SUBSET {k \in 1..n : log[k].star # ""} :
             /\ input = [player_tag |-> "A", log |-> log, recorded |-> recorded]
             /\ rank_logs = {[id |-> RankLogId(log, k),
                              rank |-> RankAfter(0, log[k].teams), by |-> "earlier"] :
                                k \in recorded}
    /\ output = [pc |-> "loop", i |-> 1, rank |-> 0, new_rank_flag |-> FALSE,
                 rank_log_id |-> <<>>, p_tag |-> Unbound]

NextFetchLoop == SkipBattle \/ RecordBattle \/ ReturnCounts

SpecFetchLoop == InitFetchLoop /\ [][NextFetchLoop]_vars

\* =====================================================================
\* Claims about the loop of fetch_battle_logs
\* =====================================================================

IsFetchLoop == DOMAIN input = {"player_tag", "log", "recorded"}

\* the battle at a position has a row in battle_logs
BattleInserted(k) ==
    \E r \in battle_logs : r.id[1] = TimeAt(input.log, k)

\* the sides of a battle that one side won and the other lost, seen from the
\* fetched player; <<>> for any other battle
SidesOf(b, player_tag) ==
    LET holds(i) == \E p \in DOMAIN b.teams[i] : b.teams[i][p].tag = player_tag
    IN  IF Len(b.teams) = 2 /\ b.result \in {"victory", "defeat"}
           /\ (holds(1) \/ holds(2)) /\ ~(holds(1) /\ holds(2))
        THEN LET mine == IF holds(1) THEN 1 ELSE 2
                 won == IF b.result = "victory" THEN mine ELSE 3 - mine
             IN  [win |-> Range(b.teams[won]), lose |-> Range(b.teams[3 - won])]
        ELSE <<>>

\* C24: the win/lose rows of a battle are the pairs (character of the winning
\* side, character of the losing side) when the battle was inserted and one
\* side won and the other lost; any other battle (draw, no result, fetched
\* player on neither team, not two teams) has no row, and no battle makes the
\* call raise.
C24_WinLoseOnlyDecided ==
    IsFetchLoop =>
        /\ output.pc # "raised"
        /\ \A k \in DOMAIN input.log :
              LET sides == SidesOf(input.log[k], input.player_tag)
                  rows == {r \in win_lose_logs :
                              r.battle_log_id[1] = TimeAt(input.log, k)}
              IN  {<<r.win_brawler_id, r.win_player_tag,
                     r.lose_brawler_id, r.lose_player_tag>> : r \in rows}
                  = IF sides # <<>> /\ BattleInserted(k)
                    THEN {<<w.id, w.tag, l.id, l.tag>> : w \in sides.win, l \in sides.lose}
                    ELSE {}

\* the starred battle that opens the match of the battle at a position: the
\* nearest one at or before it in the log, 0 when there is none
MatchOf(log, k) ==
    LET starred == {j \in 1..k : log[j].star # ""}
    IN  IF starred = {} THEN 0 ELSE CHOOSE j \in starred : \A i \in starred : i <= j

\* C26: every battle_logs row references a rank_logs row that exists, and a
\* battle is inserted only under the rank log of its own match, which this
\* call inserted: never for a match recorded before the call or by another
\* worker, and never for star-less battles at the head of the log.
C26_BattlesUnderNewRankLog ==
    IsFetchLoop =>
        /\ \A r \in battle_logs : \E l \in rank_logs : l.id = r.rank_log_id
        /\ \A k \in DOMAIN input.log : \A r \in battle_logs :
              r.id[1] = TimeAt(input.log, k) =>
                 LET m == MatchOf(input.log, k)
                 IN  /\ m # 0
                     /\ m \notin input.recorded
                     /\ r.rank_log_id = RankLogId(input.log, m)
                     /\ \E l \in rank_logs : l.id = r.rank_log_id /\ l.by = "call"

\* a recorded match with a star-less round, then a new match whose two
\* battles are the only ones inserted
C26_Witness ==
    /\ IsFetchLoop
    /\ output.pc = "returned"
    /\ Len(input.log) = 3
    /\ input.recorded = {1}
    /\ input.log[2].star = ""
    /\ input.log[3].star # ""
    /\ ~BattleInserted(1)
    /\ ~BattleInserted(2)
    /\ BattleInserted(3)

\* the highest rank value, at most 22, among the participants of a battle
HighestRank(teams) ==
    LET ranks == {0} \cup UNION {{teams[i][p].trophies : p \in DOMAIN teams[i]} : i \in DOMAIN teams}
        valid == {t \in ranks : t <= 22}
    IN  CHOOSE t \in valid : \A u \in valid : u <= t

\* C27: the rank of a rank log this call inserted is the highest rank value
\* (at most 22) among the participants of the starred battle of that match,
\* whatever matches precede it in the log.
C27_RankOfMatchAlone ==
    IsFetchLoop =>
        \A l \in rank_logs : l.by = "call" =>
            \E k \in DOMAIN input.log :
                /\ l.id = RankLogId(input.log, k)
                /\ l.rank = HighestRank(input.log[k].teams)

\* =====================================================================
\* src.fetch_battlelog.main: the loop that collects the players' battle logs
\* =====================================================================

\* the players there are; BatchSize stands for FETCH_BATCH_SIZE
CollectTags == {"A", "B", "C"}

BatchSize == 2

\* what the API call of fetch_battle_logs comes back with
Responses == {"battles", "empty", "404", "error", "unparsable"}

\* WHERE last_fetched < now - ACQ_CYCLE_TIME hours: the rows whose last fetch
\* is older than the cycle (a NULL last_fetched compares as unknown)
Eligible(ps) == {t \in DOMAIN ps : ps[t] = "old"}

\* fetch_battle_logs up to its loop, as far as the players table goes: a 404
\* deletes the player; another failure, an unparsable body and an empty
\* battle log return before anything is written; a battle log sets
\* last_fetched to now
AfterResponse(ps, t, response) ==
    IF response = "404" THEN [u \in DOMAIN ps \ {t} |-> ps[u]]
    ELSE IF response = "battles" /\ t \in DOMAIN ps THEN [ps EXCEPT ![t] = "now"]
    ELSE ps

\* SELECT tag FROM players WHERE last_fetched < %s ORDER BY ... LIMIT %s;
\* if not tags: break; else the batch goes to the executor
SelectBatch ==
    /\ main.pc = "select"
    /\ IF Eligible(players) = {}
       THEN /\ main' = [main EXCEPT !.pc = "exited", !.exit = 0]
            /\ UNCHANGED tasks
       ELSE \E tags \in SUBSET Eligible(players) :
               /\ Cardinality(tags) =
                      IF Cardinality(Eligible(players)) < BatchSize
                      THEN Cardinality(Eligible(players)) ELSE BatchSize
               /\ tasks' = [t \in tags |-> [pc |-> "start", i |-> 1]]
               /\ main' = [main EXCEPT !.pc = "wait"]
    /\ UNCHANGED <<storeVars, computeVars, loadVars, fs>>

\* one worker's fetch_battle_logs(t, api_key); the battles of a log can add
\* players (INSERT IGNORE INTO players(tag)), whose last_fetched is the
\* column's default
FetchPlayer(t) ==
    /\ main.pc = "wait"
    /\ t \in DOMAIN tasks
    /\ tasks[t].pc = "start"
    /\ \E response \in Responses :
          LET ps == AfterResponse(players, t, response)
          IN  /\ tasks' = [tasks EXCEPT ![t].pc = "done"]
              /\ \/ players' = ps
                 \/ /\ response = "battles"
                    /\ \E u \in CollectTags \ DOMAIN ps, default \in {"old", "null"} :
                          players' = [v \in DOMAIN ps \cup {u} |->
                                         IF v = u THEN default ELSE ps[v]]
    /\ UNCHANGED <<rank_logs, battle_logs, win_lose_logs, matches, db_battle_logs,
                   computeVars, loadVars, main, fs>>

\* the executor is done: SELECT COUNT(*) FROM players WHERE last_fetched < %s;
\* if rest == 0: break
CountRest ==
    /\ main.pc = "wait"
    /\ \A t \in DOMAIN tasks : tasks[t].pc = "done"
    /\ main' = IF Eligible(players) = {}
               THEN [main EXCEPT !.pc = "exited", !.exit = 0]
               ELSE [main EXCEPT !.pc = "select"]
    /\ UNCHANGED <<storeVars, computeVars, loadVars, tasks, fs>>

\* a players table with any last_fetched per player
InitCollect ==
    /\ rank_logs = <<>>
    /\ battle_logs = <<>>
    /\ win_lose_logs = {}
    /\ matches = <<>>
    /\ db_battle_logs = <<>>
    /\ \E present \in SUBSET CollectTags :
          players \in [present -> {"old", "now", "null"}]
    /\ input = <<>>
    /\ output = <<>>
    /\ rng = <<>>
    /\ loader = [pc |-> "rank_logs", rank_logs |-> <<>>, battle_rank_map |-> <<>>,
                 battle_teams |-> <<>>]
    /\ dataset = [loaded |-> FALSE, rank_logs |-> <<>>, battles |-> <<>>,
                  star_logs |-> <<>>, participants_cache |-> NoCache]
    /\ callers = [t \in Callers |-> [pc |-> "idle", filled |-> FALSE, result |-> <<>>]]
    /\ main = [pc |-> "select", conn |-> "open", exit |-> -1, error |-> "none",
               i |-> 1, previous |-> FALSE]
    /\ tasks = <<>>
    /\ fs = <<>>

NextCollect ==
    \/ SelectBatch
    \/ \E t \in CollectTags : FetchPlayer(t)
    \/ CountRest

\* every API request returns (request_with_retry ends) and the executor runs
\* every task it was given
SpecCollect == InitCollect /\ [][NextCollect]_vars /\ WF_vars(NextCollect)

\* C25: a player of a batch is no longer eligible once its fetch is done,
\* whatever the response was, and the loop of main comes to its end.
C25_CollectionTerminates ==
    /\ [](\A t \in DOMAIN tasks :
             main.pc \in {"select", "wait", "exited"} /\ tasks[t].pc = "done"
                 => t \notin Eligible(players))
    /\ <>(main.pc = "exited")

\* =====================================================================
\* brawl_stats.tasks: the periodic collection over the sqlite store, with the
\* clock.  players maps a normalized tag to last_fetched.
\* =====================================================================

\* FETCH_INTERVAL, in ticks of the clock
Interval == 2

\* int(time.time()) when the model starts, well after the epoch, and the
\* last tick it looks at
StartTime == Interval + 1

MaxTime == StartTime + Interval + 1

\* INITIAL_PLAYER_TAGS
InitialTags == << <<"#", "a">> >>

\* the ways a tag is written in calls of add_player
TagVariants ==
    {<<"A">>, <<"#", "A">>, <<"a">>, <<" ", "#", "a", " ">>}

\* UPDATE players SET last_fetched=? WHERE tag=?  with now and the normalized tag
set_last_fetched(ps, tag, now) ==
    IF normalize_tag(tag) \in DOMAIN ps
    THEN [ps EXCEPT ![normalize_tag(tag)] = now]
    ELSE ps

\* BattleLogDB.players_to_fetch: last_fetched IS NULL OR last_fetched < now - interval
players_to_fetch(ps, now, interval) == {t \in DOMAIN ps : ps[t] < now - interval}

RECURSIVE CollectItems(_, _, _)
\* the item loop of collect_from_player: battle.get("starPlayer", {}) is None
\* for a null starPlayer, and star_player.get raises AttributeError
CollectItems(st, items, player_tag) ==
    IF items = <<>> THEN st
    ELSE IF Head(items).star = NoStar THEN [st EXCEPT !.raised = TRUE]
    ELSE LET item  == Head(items)
             logs2 == add_battle(st.logs, item, winning_team_index(item, player_tag))
         IN  CollectItems(
                 IF logs2 # st.logs
                 THEN [st EXCEPT !.logs = logs2,
                                 !.players = AddPlayers(st.players, TeamTags(item)),
                                 !.stored = st.stored + 1]
                 ELSE st,
                 Tail(items), player_tag)

\* BattleLogCollector.collect_from_player: the tables it leaves, the count it
\* returns, or the exception
collect_from_player(ps, logs, player_tag, items, now) ==
    LET st == CollectItems([logs |-> logs, players |-> ps, stored |-> 0,
                            raised |-> FALSE], items, player_tag)
    IN  IF st.raised THEN st
        ELSE [st EXCEPT !.players = set_last_fetched(st.players, player_tag, now)]

\* analysis.fetch_and_store_from_api at a time of the clock, in the same form
FetchAndStoreAt(ps, logs, player_tag, items, now) ==
    LET st == StoreItems([logs |-> logs, players |-> ps, stored |-> 0],
                         items, player_tag)
    IN  [logs |-> st.logs,
         players |-> set_last_fetched(st.players, player_tag, now),
         stored |-> st.stored, raised |-> FALSE]

\* what the API returns to a call of the task: one battle
TaskResponses == {<<x>> : x \in ApiItems}

IsTasks == DOMAIN input = {"now"}

\* time passes
Tick ==
    /\ IsTasks
    /\ input.now < MaxTime
    /\ input' = [now |-> input.now + 1]
    /\ UNCHANGED <<storeVars, output, rng, runVars>>

\* db.add_player(tag), from anywhere
AddPlayerCall ==
    /\ IsTasks
    /\ \E tag \in TagVariants : players' = add_player(players, tag)
    /\ UNCHANGED <<rank_logs, battle_logs, win_lose_logs, matches, db_battle_logs,
                   computeVars, runVars>>

\* collect_battle_logs: _bootstrap_players(db), then the query of
\* db.players_to_fetch(FETCH_INTERVAL)
StartCollect ==
    /\ IsTasks
    /\ main.pc = "idle"
    /\ players' = AddPlayers(players, InitialTags)
    /\ LET yielded == players_to_fetch(players', input.now, Interval)
       IN  main' = [main EXCEPT !.pc = "collecting", !.yielded = yielded,
                                !.queue = SetToSeq(yielded), !.count = 0,
                                !.at = input.now]
    /\ UNCHANGED <<rank_logs, battle_logs, win_lose_logs, matches, db_battle_logs,
                   computeVars, loadVars, tasks, fs>>

\* count += collector.collect_from_player(tag) for the next tag; what the call
\* raises ends the task
CollectNext ==
    /\ IsTasks
    /\ main.pc = "collecting"
    /\ main.queue # <<>>
    /\ \E items \in TaskResponses :
          LET tag == Head(main.queue)
              r == collect_from_player(players, db_battle_logs, tag, items, input.now)
          IN  /\ Len(r.logs) <= MaxBattles
              /\ db_battle_logs' = r.logs
              /\ players' = r.players
              /\ main' = IF r.raised
                         THEN [main EXCEPT !.pc = "idle", !.queue = <<>>]
                         ELSE [main EXCEPT !.queue = Tail(main.queue),
                                           !.count = main.count + r.stored]
              /\ output' = IF r.raised THEN output
                           ELSE [output EXCEPT !.fetched =
                                    [t \in DOMAIN output.fetched \cup {tag} |->
                                        IF t = tag THEN input.now ELSE output.fetched[t]]]
    /\ UNCHANGED <<rank_logs, battle_logs, win_lose_logs, matches, input, rng,
                   loadVars, tasks, fs>>

\* return count
EndCollect ==
    /\ IsTasks
    /\ main.pc = "collecting"
    /\ main.queue = <<>>
    /\ main' = [main EXCEPT !.pc = "idle"]
    /\ UNCHANGED <<storeVars, computeVars, loadVars, tasks, fs>>

\* an empty store; output.fetched keeps when update_player_fetched last ran
\* for a player
InitTasks ==
    /\ EmptyStores
    /\ input = [now |-> StartTime]
    /\ output = [fetched |-> <<>>]
    /\ rng = <<>>
    /\ loader = [pc |-> "rank_logs", rank_logs |-> <<>>, battle_rank_map |-> <<>>,
                 battle_teams |-> <<>>]
    /\ dataset = [loaded |-> FALSE, rank_logs |-> <<>>, battles |-> <<>>,
                  star_logs |-> <<>>, participants_cache |-> NoCache]
    /\ callers = [t \in Callers |-> [pc |-> "idle", filled |-> FALSE, result |-> <<>>]]
    /\ main = [pc |-> "idle", yielded |-> {}, queue |-> <<>>, count |-> 0, at |-> 0]
    /\ tasks = <<>>
    /\ fs = <<>>

NextTasks == Tick \/ AddPlayerCall \/ StartCollect \/ CollectNext \/ EndCollect

SpecTasks == InitTasks /\ [][NextTasks]_vars

\* C28: for the same fetched items and the same database collect_from_player
\* and fetch_and_store_from_api return the same count and leave the same
\* tables, also when a battle's starPlayer is null.
C28_Equivalent ==
    IsTasks =>
        \A player_tag \in FetchTags, items \in ApiResponses :
            collect_from_player(players, db_battle_logs, player_tag, items, input.now)
            = FetchAndStoreAt(players, db_battle_logs, player_tag, items, input.now)

\* what add_player does to any table the tasks reach
AddPlayerLaws ==
    \A v \in TagVariants :
        /\ add_player(add_player(players, v), v) = add_player(players, v)
        /\ \A w \in TagVariants :
               normalize_tag(v) = normalize_tag(w) =>
                   add_player(players, v) = add_player(players, w)
        /\ normalize_tag(v) \in DOMAIN players => add_player(players, v) = players
        /\ \A t \in DOMAIN players : add_player(players, v)[t] = players[t]

\* what a query of players_to_fetch yields, against the times
\* update_player_fetched ran
YieldLaws ==
    /\ \A t \in main'.yielded :
           t \in DOMAIN output.fetched => input.now >= output.fetched[t] + Interval
    /\ \A t \in DOMAIN players' :
           t \notin DOMAIN output.fetched => t \in main'.yielded

\* C30: add_player never changes an existing player: it is idempotent, takes
\* tags that differ by case, surrounding blanks or a leading # as one player
\* and leaves last_fetched alone; so a player whose fetch was recorded at T is
\* not yielded by players_to_fetch before T + interval, whatever add_player
\* and bootstrap calls come in between, and a player never fetched is yielded
\* by the next query.
C30_AddPlayerKeepsFetched ==
    /\ [](IsTasks => AddPlayerLaws)
    /\ [][IsTasks /\ StartCollect => YieldLaws]_vars

\* a query one tick after A's fetch yields the players met in A's battles but
\* not A, although add_player ran for A in the bootstrap
C30_Witness ==
    /\ IsTasks
    /\ main.pc = "collecting"
    /\ <<"A">> \in DOMAIN output.fetched
    /\ main.at = output.fetched[<<"A">>] + 1
    /\ <<"A">> \notin main.yielded
    /\ <<"B">> \in main.yielded

\* =====================================================================
\* src.export_monitored_player_stats: the dataset of the monitored players
\* and their statistics (names, rank ids, win_rate and the loss ranking of the
\* output are left out)
\* =====================================================================

\* battle_logs JOIN rank_logs: the rank log and the map of a battle; the first
\* two battles are rounds of one match
BattleInfo ==
    [b1 |-> [rank_log_id |-> "r1", map_id |-> 1],
     b2 |-> [rank_log_id |-> "r1", map_id |-> 1],
     b3 |-> [rank_log_id |-> "r2", map_id |-> 2]]

WinLoseRow(win_brawler_id, win_player_tag, lose_brawler_id, lose_player_tag, battle_log_id) ==
    [win_brawler_id |-> win_brawler_id, win_player_tag |-> win_player_tag,
     lose_brawler_id |-> lose_brawler_id, lose_player_tag |-> lose_player_tag,
     battle_log_id |-> battle_log_id]

\* rows of win_lose_logs: A beats C and B in b1, loses b2 with another
\* brawler, wins b3 on the other map, and a row that has A lose b1
MonitoredRowSet ==
    {WinLoseRow(1, "A", 3, "C", "b1"), WinLoseRow(1, "A", 2, "B", "b1"),
     WinLoseRow(3, "C", 2, "A", "b2"), WinLoseRow(1, "A", 2, "B", "b3"),
     WinLoseRow(2, "B", 1, "A", "b1")}

\* SELECT tag FROM players WHERE is_monitored = 1, as it can come out
MonitoredSets == {{"A", "B"}, {"A"}, {}}

\* one half of player_battles, joined with battle_logs and rank_logs
PlayerBattles(table, monitored, is_win) ==
    LET tag(r) == IF is_win THEN r.win_player_tag ELSE r.lose_player_tag
        Mine(r) == tag(r) \in monitored
        rows == SelectSeq(table, Mine)
    IN  [i \in DOMAIN rows |->
            [player_tag |-> tag(rows[i]),
             battle_log_id |-> rows[i].battle_log_id,
             rank_log_id |-> BattleInfo[rows[i].battle_log_id].rank_log_id,
             map_id |-> BattleInfo[rows[i].battle_log_id].map_id,
             brawler_id |-> IF is_win THEN rows[i].win_brawler_id
                            ELSE rows[i].lose_brawler_id,
             is_win |-> is_win]]

\* a list that keeps every row
KeepAll(raw_rows) == raw_rows

RECURSIVE DedupeFrom(_, _)
DedupeFrom(kept, raw_rows) ==
    IF raw_rows = <<>> THEN kept
    ELSE LET record == Head(raw_rows)
             seen == \E i \in DOMAIN kept :
                        /\ kept[i].player_tag = record.player_tag
                        /\ kept[i].battle_log_id = record.battle_log_id
         IN  DedupeFrom(IF seen THEN kept ELSE Append(kept, record), Tail(raw_rows))

\* deduped_battles: the first record of every (player_tag, battle_log_id)
deduped_battles(raw_rows) == DedupeFrom(<<>>, raw_rows)

\* fetch_monitored_player_dataset: UNION ALL gives the two halves in either
\* order
fetch_monitored_player_dataset(table, monitored, wins_first) ==
    LET wins == PlayerBattles(table, monitored, TRUE)
        losses == PlayerBattles(table, monitored, FALSE)
    IN  [players |-> monitored,
         battles |-> IF monitored = {} THEN <<>>
                     ELSE deduped_battles(IF wins_first THEN wins \o losses
                                          ELSE losses \o wins)]

\* BattleStats.register_result on the counter of a key (defaultdict: a missing
\* key starts at 0, 0) and set.add on the rank logs of the key
Register(acc, key, record) ==
    LET old == IF key \in DOMAIN acc THEN acc[key]
               ELSE [wins |-> 0, losses |-> 0, rank_logs |-> {}]
        new == [wins |-> old.wins + (IF record.is_win THEN 1 ELSE 0),
                losses |-> old.losses + (IF record.is_win THEN 0 ELSE 1),
                rank_logs |-> old.rank_logs \cup {record.rank_log_id}]
    IN  [k \in DOMAIN acc \cup {key} |-> IF k = key THEN new ELSE acc[k]]

RECURSIVE RegisterAll(_, _, _)
\* for record in dataset.battles
RegisterAll(acc, battles, monitored) ==
    IF battles = <<>> THEN acc
    ELSE LET record == Head(battles)
             p == record.player_tag
         IN  RegisterAll(
                 IF p \notin monitored THEN acc
                 ELSE [per_brawler |-> Register(acc.per_brawler,
                                                <<p, record.map_id, record.brawler_id>>, record),
                       per_map |-> Register(acc.per_map, <<p, record.map_id>>, record),
                       totals |-> Register(acc.totals, <<p>>, record)],
                 Tail(battles), monitored)

\* BattleStats.to_dict(rank_games)
to_dict(stats) ==
    [wins |-> stats.wins, losses |-> stats.losses, games |-> stats.wins + stats.losses,
     rank_games |-> Cardinality(stats.rank_logs)]

\* compute_monitored_player_stats
compute_monitored_player_stats(monitored_dataset) ==
    LET acc == RegisterAll([per_brawler |-> <<>>, per_map |-> <<>>, totals |-> <<>>],
                           monitored_dataset.battles, monitored_dataset.players)
    IN  [p \in monitored_dataset.players |->
            [per_map_per_brawler |->
                 [k \in {x \in DOMAIN acc.per_brawler : x[1] = p} |->
                     to_dict(acc.per_brawler[k])],
             per_map_overall |->
                 [k \in {x \in DOMAIN acc.per_map : x[1] = p} |-> to_dict(acc.per_map[k])],
             overall |-> IF <<p>> \in DOMAIN acc.totals THEN to_dict(acc.totals[<<p>>])
                         ELSE to_dict([wins |-> 0, losses |-> 0, rank_logs |-> {}])]]

IsMonitoredInput == DOMAIN input = {"table", "monitored", "wins_first"}

\* main: the dataset is fetched and the statistics computed
RunMonitoredStats ==
    /\ IsMonitoredInput
    /\ output = <<>>
    /\ output' = [players |-> compute_monitored_player_stats(
                      fetch_monitored_player_dataset(input.table, input.monitored,
                                                     input.wins_first))]
    /\ UNCHANGED <<storeVars, input, rng, runVars>>

InitMonitored ==
    /\ EmptyStores
    /\ NoRun
    /\ rng = <<>>
    /\ output = <<>>
    /\ \E table \in SeqsUpTo(MonitoredRowSet, MaxRows), monitored \in MonitoredSets,
          wins_first \in BOOLEAN :
          input = [table |-> table, monitored |-> monitored, wins_first |-> wins_first]

NextMonitored == RunMonitoredStats

SpecMonitored == InitMonitored /\ [][NextMonitored]_vars

\* the battles of a player in the tables
BattlesOfPlayer(table, p) ==
    {table[i].battle_log_id : i \in {j \in DOMAIN table :
        table[j].win_player_tag = p \/ table[j].lose_player_tag = p}}

\* the sum of a field over the entries of a function
FieldSum(f, keys, field) == SetSum(keys, [k \in keys |-> f[k][field]])

\* C29: for every monitored player the overall games are wins + losses, the
\* number of the player's distinct battles and the sum of the per-map games;
\* each map's wins and losses are the sums over its brawlers; rank_games
\* never exceeds games; and every monitored player is in the output, with
\* zeros and no map when the player has no battle.
C29_CountsConserved ==
    IsMonitoredInput /\ output # <<>> =>
        /\ DOMAIN output.players = input.monitored
        /\ \A p \in input.monitored :
              LET r == output.players[p]
                  maps == DOMAIN r.per_map_overall
                  brawlers(m) == {k \in DOMAIN r.per_map_per_brawler : k[2] = m[2]}
              IN  /\ r.overall.games = r.overall.wins + r.overall.losses
                  /\ r.overall.games = Cardinality(BattlesOfPlayer(input.table, p))
                  /\ r.overall.games = FieldSum(r.per_map_overall, maps, "games")
                  /\ r.overall.rank_games <= r.overall.games
                  /\ \A m \in maps :
                        /\ r.per_map_overall[m].wins =
                               FieldSum(r.per_map_per_brawler, brawlers(m), "wins")
                        /\ r.per_map_overall[m].losses =
                               FieldSum(r.per_map_per_brawler, brawlers(m), "losses")
                        /\ r.per_map_overall[m].rank_games <= r.per_map_overall[m].games
                  /\ \A k \in DOMAIN r.per_map_per_brawler :
                        r.per_map_per_brawler[k].rank_games <= r.per_map_per_brawler[k].games
                  /\ BattlesOfPlayer(input.table, p) = {} =>
                        /\ r.overall = [wins |-> 0, losses |-> 0, games |-> 0, rank_games |-> 0]
                        /\ maps = {}
                        /\ DOMAIN r.per_map_per_brawler = {}

\* A has two rounds of one match, one won and one lost with different
\* brawlers, met in several rows, and B is monitored without a battle
C29_Witness ==
    /\ IsMonitoredInput
    /\ output # <<>>
    /\ input.monitored = {"A", "B"}
    /\ output.players["A"].overall = [wins |-> 1, losses |-> 1, games |-> 2, rank_games |-> 1]
    /\ output.players["B"].overall.games = 0

====
